---- MODULE Spec2Model ----
(***************************************************************************)
(* Verification model of the MoneyForward scraper (kyouyap/account_me).    *)
(*                                                                         *)
(* Components modelled:                                                    *)
(*   - FileDownloader.download_from_links  (src/src/scraper/downloader.py)  *)
(*   - GmailClient                         (src/src/scraper/gmail_client.py) *)
(*   - BrowserManager.login                (src/src/scraper/browser.py)     *)
(*   - AuthenticationManager.login and                                     *)
(*     MoneyForwardTwoFactorAuthenticator  (src/src/scraper/auth/authenticator.py) *)
(*   - retry_operation, the driver lifecycle and the driver guard of       *)
(*     BrowserManager                      (src/src/scraper/browser.py)     *)
(*   - MoneyForwardScraper.scrape          (src/src/scraper/scraper.py)     *)
(*   - CSV reading and aggregation         (src/src/scraper/scraper.py,     *)
(*                                          src/src/scraper/files/csv_processor.py) *)
(*   - BrowserManager.get_links_for_download (src/src/scraper/browser.py)   *)
(*   - MoneyForwardDownloader             (src/src/scraper/files/downloader.py) *)
(*   - the history page, from its address to its download                  *)
(*   - the legacy entry point scrape       (src/src/main.py)                *)
(***************************************************************************)
EXTENDS Integers, Sequences, FiniteSets, TLC

(***************************************************************************)
(* Bounds of the model.                                                    *)
(***************************************************************************)
MaxLinks == 3
MaxMonths == 2
MaxOld == 1         \* matching messages in the mailbox before the login
MaxNew == 1         \* matching messages arriving during the login
MaxTime == 1        \* clock readings 0..MaxTime
MaxRetry == 3           \* largest retry_count explored
MaxOps == 2             \* BrowserManager operations called in one lifetime
MaxFiles == 2           \* CSV files given to one aggregation
MaxRows == 3            \* rows of the accounts table after its first row
MaxUrls == 3            \* URLs given to one download_files call

VARIABLES
    \* ---- FileDownloader.download_from_links ----
    links,              \* the `links` argument: kind of each link, in list order
    months,             \* settings.moneyforward.history.months_to_download
    dl_pc,              \* position inside download_from_links
    dl_i,               \* loop variable `i` of enumerate(links) (0-based)
    dl_month,           \* loop variable `month` of _download_account_page
    month_files,        \* local list of _download_account_page
    downloaded_files,   \* local list of download_from_links, the return value
    dl_error,           \* which DownloadError left download_from_links
    dl_warned,          \* the partial-success warning was logged
    attempted,          \* history: link indices in the order their processing began
    fetched_ok,         \* history: files written by successful download_file calls
    failed_links,       \* history: link indices whose processing raised
    first_fetch,        \* history: link and outcome of the first download_file call
    last_outcome,       \* history: outcome of the latest step
    prev_clicks,        \* "previous period" clicks since the "today" click
    month_log,          \* history: month iterations of the account page opened last
    \* ---- environment of a login: mailbox collaborator and clock ----
    mailbox,            \* matching messages, most recent first
    now,                \* datetime.now(UTC+9)
    arrivals,           \* messages that arrived since the login began
    \* ---- GmailClient ----
    examined,           \* history: get_verification_code_by_id calls and results
    gv_result,          \* history: how GmailClient.get_verification_code ended
    \* ---- login flows (BrowserManager.login / AuthenticationManager.login) ----
    log,                \* history: browser and mailbox operations, in order
    otp_input,          \* code_input: the one-time-code field that was found
    submitted,          \* what was typed into code_input and submitted
    bl_pc,              \* position inside BrowserManager.login
    bl_scan,            \* get_verification_code: ids still to examine
    bl_result,          \* how BrowserManager.login ended
    \* ---- AuthenticationManager.login / MoneyForwardTwoFactorAuthenticator ----
    au_pc,              \* position inside AuthenticationManager.login
    au_2fa,             \* self._two_factor_auth is set
    au_result,          \* how AuthenticationManager.login ended
    au_cause,           \* the error AuthenticationError was raised from
    last_email_id,      \* handle_2fa: the baseline id
    new_email_id,       \* handle_2fa: what _wait_for_new_verification_email returned
    au_attempt,         \* _wait_for_new_verification_email: polls made
    au_polls,           \* history: mailbox queries made by the wait
    au_same,            \* history: queries of the wait that returned the baseline id
    au_slept,           \* history: seconds slept by _wait_for_new_verification_email
    time_bound,         \* the function-local name `time` is bound (line 133 ran)
    \* ---- retry_operation (BrowserManager / BaseSeleniumManager) ----
    rt_manager,         \* the class whose retry_operation runs
    retry_count,        \* self.retry_count
    rt_args,            \* the *args, **kwargs given to retry_operation
    rt_pc,              \* position inside retry_operation
    rt_attempt,         \* loop variable `attempt`
    last_error,         \* local `last_error`
    rt_calls,           \* history: invocations of the operation, with their outcome
    rt_sleeps,          \* history: time.sleep(1) calls
    rt_result,          \* the value returned or the exception raised
    \* ---- BrowserManager as a context manager ----
    driver,             \* self.driver: "none" or "held"
    acquired,           \* history: __enter__ returned with a driver
    quit_calls,         \* history: calls of driver.quit()
    bm_pc,              \* position of a `with BrowserManager()` statement
    bm_exc,             \* the exception that leaves the with statement
    op_log,             \* history: operations called on the manager
    \* ---- MoneyForwardScraper.scrape ----
    sc_env,             \* EMAIL and PASSWORD are "set" or "missing"
    sc_pc,              \* position inside scrape
    sc_phase,           \* which _download_and_aggregate call runs: detail or assets
    sc_links,           \* local `links` of _download_and_aggregate
    sc_exc,             \* the exception propagating out of the with block
    sc_result,          \* how scrape ended
    dir_files,          \* the files of the download working directory
    outputs,            \* the aggregated output files written
    sc_trace,           \* history: stages run and how each ended
    clean_failed,       \* history: a clean_download_dir call could not delete
    \* ---- CSV aggregation (MoneyForwardScraper / MoneyForwardCSVProcessor) ----
    ag_impl,            \* the class whose aggregation runs
    ag_rules,           \* settings.moneyforward.special_rules
    ag_files,           \* the CSV files to aggregate, in processing order
    ag_pc,              \* position inside the aggregation
    ag_i,               \* index of the next file of the loop
    all_dfs,            \* the list of data frames read so far (all_dfs / dfs)
    ag_reads,           \* history: what reading each file returned
    ag_output,          \* the rows written to output_path
    ag_result,          \* how the aggregation ended
    \* ---- BrowserManager.get_links_for_download ----
    gl_page_url,        \* the kind of the `page_url` argument
    gl_layout,          \* what the page holds: every control, or the one missing
    gl_table,           \* the tr elements of the data table, in document order
    gl_rows,            \* local `rows` of _extract_links_from_accounts_page
    gl_pc,              \* position inside get_links_for_download
    gl_k,               \* index of the next row of the row loop
    gl_links,           \* local `links` of _extract_links_from_accounts_page
    gl_result,          \* what get_links_for_download returned or raised
    \* ---- MoneyForwardDownloader.download_files / download_file ----
    mf_urls,            \* the `urls` argument: what happens to the request of each
    mf_pc,              \* position inside download_files / download_file
    mf_i,               \* loop variable `i` of enumerate(urls) (0-based)
    mf_response,        \* local `response` of download_file: "none" or "held"
    mf_exc,             \* the exception propagating inside download_file
    mf_released,        \* release_conn calls on the response of this download_file
    mf_files,           \* local `downloaded_files` of download_files
    mf_errors,          \* local `errors` of download_files (their count)
    mf_log,             \* history: every finished download_file call
    mf_result,          \* how download_files ended
    \* ---- the history page: scrape, get_links_for_download, download_from_links ----
    hl_raw_base,        \* moneyforward.base_url as configured
    hl_endpoint,        \* moneyforward.endpoints.history
    hl_pc,              \* position inside _download_and_aggregate
    hl_current,         \* driver.current_url after driver.get(page_url)
    hl_links,           \* what get_links_for_download returned
    hl_strategy,        \* history: how download_from_links handled link 0
    hl_today_clicked,   \* history: the "today" button was clicked
    hl_month,           \* loop variable `month` of _download_account_page
    hl_fetched,         \* history: the URL given to download_file by the history strategy
    hl_files,           \* local `downloaded_files` of download_from_links
    \* ---- the legacy entry point main.scrape ----
    mn_env,             \* whether EMAIL and PASSWORD are set
    mn_pc,              \* position inside scrape
    mn_step,            \* index of the next statement of the try block
    mn_driver,          \* the local name `driver`: "unbound" or "bound"
    mn_exc,             \* the exception raised in the try block
    mn_logged,          \* history: errors logged by the except clause
    mn_quit_calls,      \* history: calls of driver.quit()
    mn_result           \* how scrape ended

dlVars == <<links, months, dl_pc, dl_i, dl_month, month_files, downloaded_files,
            dl_error, dl_warned, attempted, fetched_ok, failed_links,
            first_fetch, last_outcome, prev_clicks, month_log>>

envVars == <<mailbox, now, arrivals>>

loginVars == <<examined, gv_result, log, otp_input, submitted>>

blVars == <<bl_pc, bl_scan, bl_result>>

auVars == <<au_pc, au_2fa, au_result, au_cause, last_email_id, new_email_id,
            au_attempt, au_polls, au_same, au_slept, time_bound>>

rtVars == <<rt_manager, retry_count, rt_args, rt_pc, rt_attempt, last_error,
            rt_calls, rt_sleeps, rt_result>>

bmVars == <<driver, acquired, quit_calls>>

withVars == <<bm_pc, bm_exc, op_log>>

\* The components that take no part in a download or a login.
scVars == <<sc_env, sc_pc, sc_phase, sc_links, sc_exc, sc_result, dir_files,
            outputs, sc_trace, clean_failed>>

agVars == <<ag_impl, ag_rules, ag_files, ag_pc, ag_i, all_dfs, ag_reads,
            ag_output, ag_result>>

glVars == <<gl_page_url, gl_layout, gl_table, gl_rows, gl_pc, gl_k, gl_links,
            gl_result>>

mnVars == <<mn_env, mn_pc, mn_step, mn_driver, mn_exc, mn_logged, mn_quit_calls,
            mn_result>>

hlVars == <<hl_raw_base, hl_endpoint, hl_pc, hl_current, hl_links, hl_strategy,
            hl_today_clicked, hl_month, hl_fetched, hl_files>>

mfVars == <<mf_urls, mf_pc, mf_i, mf_response, mf_exc, mf_released, mf_files,
            mf_errors, mf_log, mf_result>>

extVars == <<rtVars, bmVars, withVars, scVars, agVars, glVars, mfVars, hlVars, mnVars>>

vars == <<dlVars, envVars, loginVars, blVars, auVars, extVars>>

notDlVars == <<envVars, loginVars, blVars, auVars, extVars>>

notBlVars == <<dlVars, auVars, extVars>>

notAuVars == <<dlVars, blVars, extVars>>

notRtVars == <<dlVars, envVars, loginVars, blVars, auVars, bmVars, withVars, scVars,
               agVars, glVars,
               mfVars, hlVars, mnVars>>

notWithVars == <<dlVars, envVars, loginVars, blVars, auVars, rtVars, scVars, agVars,
                 glVars,
               mfVars, hlVars, mnVars>>

notScVars == <<dlVars, envVars, loginVars, blVars, auVars, rtVars, withVars, agVars,
               glVars,
               mfVars, hlVars, mnVars>>

notAgVars == <<dlVars, envVars, loginVars, blVars, auVars, rtVars, bmVars, withVars,
               scVars, glVars,
               mfVars, hlVars, mnVars>>

notGlVars == <<dlVars, envVars, loginVars, blVars, auVars, rtVars, withVars, scVars,
               agVars,
               mfVars, hlVars, mnVars>>

notMfVars == <<dlVars, envVars, loginVars, blVars, auVars, rtVars, bmVars, withVars,
               scVars, agVars, glVars, hlVars, mnVars>>

notHlVars == <<dlVars, envVars, loginVars, blVars, auVars, rtVars, bmVars, withVars,
               scVars, agVars, glVars, mfVars, mnVars>>

notMnVars == <<dlVars, envVars, loginVars, blVars, auVars, rtVars, bmVars, withVars,
               scVars, agVars, glVars, mfVars, hlVars>>

(***************************************************************************)
(* FileDownloader (src/src/scraper/downloader.py)                          *)
(***************************************************************************)
LinkKinds == {"history", "account"}

\* Ways download_file can end: it returns the output path, or raises
\* DownloadError for an HTTP error, a non-200 status or a file error.
FetchFailures == {"http_error", "non_200", "file_error"}
FetchOutcomes == {"ok"} \cup FetchFailures

\* Ways the navigation part of _download_account_page can end.
AccountOpenOutcomes == {"ok", "nav_error", "no_today_button"}

\* Ways one _download_monthly_data call can end: a control is not located,
\* the CSV href is empty, or download_file is called and ends in some way.
MonthOutcomes == {"no_prev_button", "no_download_button", "no_csv_link",
                  "empty_href"} \cup FetchOutcomes

NoFetch == [link |-> -1, outcome |-> "none"]

\* Output file of the history strategy: <base>_<index>.csv (no month part).
HistoryFile(i) == [index |-> i, month |-> -1]

\* Output file of one month of an account page: <base>_<index>_<month>.csv.
MonthFile(i, m) == [index |-> i, month |-> m]

\* `except Exception` of the link loop: raise only while nothing was downloaded.
MutOnLinkExceptionNeverRaise(files) == "continue"
MutOnLinkExceptionAlwaysRaise(files) == "raise"
OnLinkException(files) == IF files = <<>> THEN "raise" ELSE "continue"

\* prev_button.click() is the first step of a month iteration: it is made
\* unless the button is not located.
ClicksPrev(outcome) == outcome # "no_prev_button"

\* What a month iteration fetched: no download_file call, a failed or a saved one.
FetchOf(outcome) ==
    IF outcome = "ok" THEN "saved"
    ELSE IF outcome \in FetchOutcomes THEN "failed" ELSE "none"

MonthEntry(month, clicks, fetch) == [month |-> month, clicks |-> clicks, fetch |-> fetch]

\* `except Exception as month_error: return None`, and the `return None` of an
\* empty href: a month iteration that saved no file raises nothing.
MutOnMonthFailureRaises(outcome) == "raise"
OnMonthFailure(outcome) == "return_none"

\* `for month in range(months_to_download)`: the offset after m.
MutNextMonthSkips(m) == m + 2
NextMonth(m) == m + 1

\* `if month_files: downloaded_files.extend(month_files)`
ExtendFiles(files, mfiles) == IF mfiles # <<>> THEN files \o mfiles ELSE files

\* The check after the loop: no file at all is a DownloadError.
MutAllFailedNever(files) == FALSE
AllFailed(files) == files = <<>>

\* The condition of the partial-success warning.
PartialSuccess(files, ls) == Len(files) < Len(ls)

NoteFetch(i, outcome) ==
    first_fetch' = IF first_fetch = NoFetch
                   THEN [link |-> i, outcome |-> outcome]
                   ELSE first_fetch

\* The except branch of the link loop, reached when processing link dl_i raised.
LinkRaised ==
    /\ failed_links' = failed_links \cup {dl_i}
    /\ IF OnLinkException(downloaded_files) = "raise"
       THEN /\ dl_pc' = "raised"
            /\ dl_error' = "first"
            /\ dl_i' = dl_i
       ELSE /\ dl_pc' = "loop"
            /\ dl_error' = dl_error
            /\ dl_i' = dl_i + 1

\* No download is running (the state of the other components' specifications).
IdleDownload ==
    /\ links = <<>>
    /\ months = 1
    /\ dl_pc = "idle"
    /\ dl_i = 0
    /\ dl_month = 0
    /\ month_files = <<>>
    /\ downloaded_files = <<>>
    /\ dl_error = "none"
    /\ dl_warned = FALSE
    /\ attempted = <<>>
    /\ fetched_ok = <<>>
    /\ failed_links = {}
    /\ first_fetch = NoFetch
    /\ last_outcome = "none"
    /\ prev_clicks = 0
    /\ month_log = <<>>

StartDownload ==
    /\ links \in UNION {[1..n -> LinkKinds] : n \in 0..MaxLinks}
    /\ months \in 1..MaxMonths
    /\ dl_pc = "start"
    /\ dl_i = 0
    /\ dl_month = 0
    /\ month_files = <<>>
    /\ downloaded_files = <<>>
    /\ dl_error = "none"
    /\ dl_warned = FALSE
    /\ attempted = <<>>
    /\ fetched_ok = <<>>
    /\ failed_links = {}
    /\ first_fetch = NoFetch
    /\ last_outcome = "none"
    /\ prev_clicks = 0
    /\ month_log = <<>>

\* `if not links: return []`
DownloadFromLinksStart ==
    /\ dl_pc = "start"
    /\ dl_pc' = IF links = <<>> THEN "returned" ELSE "loop"
    /\ UNCHANGED <<links, months, dl_i, dl_month, month_files, downloaded_files,
                   dl_error, dl_warned, attempted, fetched_ok, failed_links,
                   first_fetch, last_outcome, prev_clicks, month_log>>
    /\ UNCHANGED notDlVars

\* One loop iteration on a link equal to history_url: _download_history_page.
DownloadHistoryPage ==
    /\ dl_pc = "loop"
    /\ dl_i < Len(links)
    /\ links[dl_i + 1] = "history"
    /\ \E outcome \in FetchOutcomes :
         /\ last_outcome' = outcome
         /\ attempted' = Append(attempted, dl_i)
         /\ NoteFetch(dl_i, outcome)
         /\ IF outcome = "ok"
            THEN /\ downloaded_files' = Append(downloaded_files, HistoryFile(dl_i))
                 /\ fetched_ok' = Append(fetched_ok, HistoryFile(dl_i))
                 /\ dl_i' = dl_i + 1
                 /\ UNCHANGED <<dl_pc, dl_error, failed_links>>
            ELSE /\ LinkRaised
                 /\ UNCHANGED <<downloaded_files, fetched_ok>>
    /\ UNCHANGED <<links, months, dl_month, month_files, dl_warned, prev_clicks,
                   month_log>>
    /\ UNCHANGED notDlVars

\* One loop iteration on any other link, up to the month loop:
\* driver.get(link), find and click the "today" button.
DownloadAccountPageOpen ==
    /\ dl_pc = "loop"
    /\ dl_i < Len(links)
    /\ links[dl_i + 1] = "account"
    /\ \E outcome \in AccountOpenOutcomes :
         /\ last_outcome' = outcome
         /\ attempted' = Append(attempted, dl_i)
         /\ month_files' = <<>>
         /\ dl_month' = 0
         /\ prev_clicks' = 0
         /\ month_log' = <<>>
         /\ IF outcome = "ok"
            THEN /\ dl_pc' = "month"
                 /\ UNCHANGED <<dl_i, dl_error, failed_links>>
            ELSE LinkRaised
    /\ UNCHANGED <<links, months, downloaded_files, dl_warned, fetched_ok,
                   first_fetch>>
    /\ UNCHANGED notDlVars

\* One call of _download_monthly_data: the previous-period button is clicked
\* first, then the download button, then the CSV link is read and fetched.
DownloadMonthlyData ==
    /\ dl_pc = "month"
    /\ dl_month < months
    /\ \E outcome \in MonthOutcomes :
         LET clicks == IF ClicksPrev(outcome) THEN prev_clicks + 1 ELSE prev_clicks
         IN  /\ last_outcome' = outcome
             /\ prev_clicks' = clicks
             /\ month_log' = Append(month_log,
                                    MonthEntry(dl_month, clicks, FetchOf(outcome)))
             /\ IF outcome \in FetchOutcomes
                THEN NoteFetch(dl_i, outcome)
                ELSE UNCHANGED first_fetch
             /\ IF outcome = "ok"
                THEN /\ month_files' = Append(month_files, MonthFile(dl_i, dl_month))
                     /\ fetched_ok' = Append(fetched_ok, MonthFile(dl_i, dl_month))
                     /\ dl_month' = NextMonth(dl_month)
                     /\ UNCHANGED <<dl_pc, dl_i, dl_error, failed_links>>
                ELSE IF OnMonthFailure(outcome) = "return_none"
                THEN /\ dl_month' = NextMonth(dl_month)
                     /\ UNCHANGED <<month_files, fetched_ok, dl_pc, dl_i, dl_error,
                                    failed_links>>
                ELSE /\ LinkRaised
                     /\ UNCHANGED <<month_files, fetched_ok, dl_month>>
    /\ UNCHANGED <<links, months, downloaded_files, dl_warned, attempted>>
    /\ UNCHANGED notDlVars

\* End of the month loop: _download_account_page returns month_files.
DownloadAccountPageEnd ==
    /\ dl_pc = "month"
    /\ dl_month >= months
    /\ downloaded_files' = ExtendFiles(downloaded_files, month_files)
    /\ month_files' = <<>>
    /\ dl_i' = dl_i + 1
    /\ dl_pc' = "loop"
    /\ last_outcome' = "none"
    /\ UNCHANGED <<links, months, dl_month, dl_error, dl_warned, attempted,
                   fetched_ok, failed_links, first_fetch, prev_clicks, month_log>>
    /\ UNCHANGED notDlVars

\* After the loop: DownloadError when nothing was downloaded, else the
\* partial-success warning and the return of downloaded_files.
DownloadFinish ==
    /\ dl_pc = "loop"
    /\ dl_i = Len(links)
    /\ IF AllFailed(downloaded_files)
       THEN /\ dl_pc' = "raised"
            /\ dl_error' = "all"
            /\ UNCHANGED dl_warned
       ELSE /\ dl_pc' = "returned"
            /\ dl_warned' = PartialSuccess(downloaded_files, links)
            /\ UNCHANGED dl_error
    /\ last_outcome' = "none"
    /\ UNCHANGED <<links, months, dl_i, dl_month, month_files, downloaded_files,
                   attempted, fetched_ok, failed_links, first_fetch, prev_clicks,
                   month_log>>
    /\ UNCHANGED notDlVars

NextDownload ==
    \/ DownloadFromLinksStart
    \/ DownloadHistoryPage
    \/ DownloadAccountPageOpen
    \/ DownloadMonthlyData
    \/ DownloadAccountPageEnd
    \/ DownloadFinish



(***************************************************************************)
(* Mailbox collaborator and clock: the environment of a login.             *)
(***************************************************************************)
\* What a matching mail can hold: a 6-digit code or none, and an expiry
\* "valid for N mins (<date>)" that is a date, is missing, or is no date.
MessageBodies ==
    {[code |-> "present", expiry_text |-> "date", expiry |-> e] : e \in 0..MaxTime}
    \cup {[code |-> "missing", expiry_text |-> "date", expiry |-> MaxTime],
          [code |-> "present", expiry_text |-> "missing", expiry |-> 0],
          [code |-> "present", expiry_text |-> "invalid", expiry |-> 0]}

\* A message of the mailbox: its id, its body, and whether it arrived after
\* the login began (fresh) or was left by a previous run.
Message(id, body, fresh) ==
    [id |-> id, code |-> body.code, expiry_text |-> body.expiry_text,
     expiry |-> body.expiry, fresh |-> fresh]

\* Mailboxes left by previous runs: most recent first, ids growing with arrival.
OldMailboxes ==
    UNION {{[k \in 1..n |-> Message(n - k + 1, b[k], FALSE)] : b \in [1..n -> MessageBodies]}
           : n \in 0..MaxOld}

NoMessage == [id |-> 0, code |-> "missing", expiry_text |-> "missing",
              expiry |-> 0, fresh |-> FALSE]

MessageById(id) ==
    IF \E k \in 1..Len(mailbox) : mailbox[k].id = id
    THEN mailbox[CHOOSE k \in 1..Len(mailbox) : mailbox[k].id = id]
    ELSE NoMessage

\* The 6-digit code of a message (one distinct code per message).
CodeOf(msg) == msg.id

InitEnv ==
    /\ mailbox \in OldMailboxes
    /\ now = 0
    /\ arrivals = 0

IdleEnv ==
    /\ mailbox = <<>>
    /\ now = 0
    /\ arrivals = 0

(***************************************************************************)
(* GmailClient (src/src/scraper/gmail_client.py)                           *)
(***************************************************************************)
MaxResults == 5

ApiOutcomes == {"ok", "api_error"}

\* get_verification_email_ids: the ids of the matching messages, most recent
\* first, at most max_results of them.
VerificationEmailIds ==
    [k \in 1..(IF Len(mailbox) < MaxResults THEN Len(mailbox) ELSE MaxResults)
        |-> mailbox[k].id]

\* `if now > expiry: raise VerificationCodeError`
MutExpiredAlsoAtExpiry(t, expiry) == t >= expiry
MutExpiredNever(t, expiry) == FALSE
Expired(t, expiry) == t > expiry

\* _parse_message: the code and the expiry, or VerificationCodeError when the
\* code or the expiry pattern is missing or the date does not parse.
ParseMessage(msg) ==
    IF msg.code = "present" /\ msg.expiry_text = "date"
    THEN [kind |-> "parsed", code |-> CodeOf(msg), expiry |-> msg.expiry]
    ELSE [kind |-> "VerificationCodeError", code |-> 0, expiry |-> 0]

\* get_verification_code_by_id(msg_id) called at time t.
VerificationCodeById(id, t, api) ==
    LET msg == MessageById(id)
        parsed == ParseMessage(msg)
    IN  IF api = "api_error" \/ msg = NoMessage
        THEN [kind |-> "GmailApiError", code |-> 0]
        ELSE IF parsed.kind # "parsed"
        THEN [kind |-> "VerificationCodeError", code |-> 0]
        ELSE IF Expired(t, parsed.expiry)
        THEN [kind |-> "VerificationCodeError", code |-> 0]
        ELSE [kind |-> "code", code |-> parsed.code]

\* get_verification_email_ids inside get_verification_code: TimeoutError and
\* HttpError become GmailApiError, any other exception leaves as it is, and an
\* empty list is a VerificationCodeError.
ListOutcomes == ApiOutcomes \cup {"other_error"}

ListRaises(outcome, ids) ==
    IF outcome = "api_error" THEN "GmailApiError"
    ELSE IF outcome = "other_error" THEN "Exception"
    ELSE IF ids = <<>> THEN "VerificationCodeError"
    ELSE "none"

\* The loop of get_verification_code: `except VerificationCodeError: continue`,
\* `except Exception: raise GmailApiError`.
MutOnCodeErrorContinues(class) == "continue"
OnCodeError(class) ==
    IF class = "VerificationCodeError" THEN "continue" ELSE "GmailApiError"

Examine(id, t, r) == Append(examined, [id |-> id, at |-> t, kind |-> r.kind, code |-> r.code])

(***************************************************************************)
(* What both login flows share.                                            *)
(***************************************************************************)
\* Outcomes of WebDriverWait(...).until(presence_of_element_located(...)).
LookupOutcomes == {"found", "timeout"}

\* Outcomes of writing a diagnostic page-source file.
WriteOutcomes == {"ok", "os_error"}

NoCode == [code |-> 0, field |-> "none"]

CurrentOtpField == "email_otp"
LegacyOtpField == "mfid_user[otp_attempt]"

IdleLogin ==
    /\ examined = <<>>
    /\ gv_result = "none"
    /\ log = <<>>
    /\ otp_input = "none"
    /\ submitted = NoCode

LoginRunning ==
    \/ bl_pc \notin {"idle", "done"}
    \/ au_pc \notin {"idle", "done"}

Events == {log[k] : k \in 1..Len(log)}

\* The clock advances while the login runs.
Tick ==
    /\ LoginRunning
    /\ now < MaxTime
    /\ now' = now + 1
    /\ UNCHANGED <<mailbox, arrivals, loginVars, blVars, auVars, dlVars, extVars>>

\* A matching message arrives; the site sends one once the password is in.
MailArrives ==
    /\ LoginRunning
    /\ "submit:password" \in Events
    /\ arrivals < MaxNew
    /\ \E b \in MessageBodies :
         mailbox' = <<Message(Len(mailbox) + 1, b, TRUE)>> \o mailbox
    /\ arrivals' = arrivals + 1
    /\ UNCHANGED <<now, loginVars, blVars, auVars, dlVars, extVars>>

(***************************************************************************)
(* BrowserManager.login (src/src/scraper/browser.py)                       *)
(***************************************************************************)
\* BrowserManager.wait_and_find_element: the element, or ScrapingError when
\* the wait times out.
BrowserWaitAndFind(outcome) ==
    IF outcome = "found" THEN "found" ELSE "ScrapingError"

\* The except clauses of login. The handlers of TimeoutException,
\* ScrapingError and Exception write error_page.html before raising
\* AuthenticationError; an error of that write leaves login instead.
LoginExcept(exc, write) ==
    IF exc \in {"GmailApiError", "VerificationCodeError"}
    THEN "AuthenticationError"
    ELSE IF write = "ok" THEN "AuthenticationError" ELSE "OSError"

\* login ends with exception `exc` raised inside its try block.
BLRaise(exc) ==
    /\ \E w \in WriteOutcomes : bl_result' = LoginExcept(exc, w)
    /\ bl_pc' = "done"

IdleBrowserLogin ==
    /\ bl_pc = "idle"
    /\ bl_scan = <<>>
    /\ bl_result = "none"

InitBrowserLogin ==
    /\ bl_pc = "get"
    /\ bl_scan = <<>>
    /\ bl_result = "none"

\* self.driver.get(url)
BLNavigate ==
    /\ bl_pc = "get"
    /\ log' = Append(log, "get:login")
    /\ \E outcome \in {"ok", "WebDriverException"} :
         IF outcome = "ok"
         THEN bl_pc' = "email" /\ UNCHANGED bl_result
         ELSE BLRaise(outcome)
    /\ UNCHANGED <<envVars, examined, gv_result, otp_input, submitted, bl_scan, notBlVars>>

\* Find the identifier field, type the address and submit the form.
BLSubmitEmail ==
    /\ bl_pc = "email"
    /\ \E outcome \in LookupOutcomes :
         IF BrowserWaitAndFind(outcome) = "found"
         THEN /\ log' = log \o <<"find:mfid_user[email]", "submit:email">>
              /\ bl_pc' = "password"
              /\ UNCHANGED bl_result
         ELSE /\ log' = Append(log, "find:mfid_user[email]")
              /\ BLRaise(BrowserWaitAndFind(outcome))
    /\ UNCHANGED <<envVars, examined, gv_result, otp_input, submitted, bl_scan, notBlVars>>

\* Find the secret field, type the password and submit the form.
BLSubmitPassword ==
    /\ bl_pc = "password"
    /\ \E outcome \in LookupOutcomes :
         IF BrowserWaitAndFind(outcome) = "found"
         THEN /\ log' = log \o <<"find:mfid_user[password]", "submit:password">>
              /\ bl_pc' = "gmail"
              /\ UNCHANGED bl_result
         ELSE /\ log' = Append(log, "find:mfid_user[password]")
              /\ BLRaise(BrowserWaitAndFind(outcome))
    /\ UNCHANGED <<envVars, examined, gv_result, otp_input, submitted, bl_scan, notBlVars>>

\* gmail_client = GmailClient(): builds the Gmail service.
BLCreateGmailClient ==
    /\ bl_pc = "gmail"
    /\ log' = Append(log, "gmail:init")
    /\ \E outcome \in ApiOutcomes :
         IF outcome = "ok"
         THEN bl_pc' = "otp_current" /\ UNCHANGED bl_result
         ELSE BLRaise("GmailApiError")
    /\ UNCHANGED <<envVars, examined, gv_result, otp_input, submitted, bl_scan, notBlVars>>

\* _handle_two_factor_authentication: look for the current one-time-code field.
BLFindCurrentOtp ==
    /\ bl_pc = "otp_current"
    /\ \E outcome \in LookupOutcomes :
         IF BrowserWaitAndFind(outcome) = "found"
         THEN /\ log' = Append(log, "find:email_otp")
              /\ otp_input' = CurrentOtpField
              /\ bl_pc' = "list"
         ELSE /\ log' = log \o <<"find:email_otp", "notfound:email_otp">>
              /\ otp_input' = otp_input
              /\ bl_pc' = "otp_legacy"
    /\ UNCHANGED <<envVars, examined, gv_result, submitted, bl_scan, bl_result, notBlVars>>

\* except ScrapingError: look for the legacy field; except ScrapingError: return.
BLFindLegacyOtp ==
    /\ bl_pc = "otp_legacy"
    /\ \E outcome \in LookupOutcomes :
         IF BrowserWaitAndFind(outcome) = "found"
         THEN /\ log' = Append(log, "find:mfid_user[otp_attempt]")
              /\ otp_input' = LegacyOtpField
              /\ bl_pc' = "list"
         ELSE /\ log' = log \o <<"find:mfid_user[otp_attempt]",
                                  "notfound:mfid_user[otp_attempt]">>
              /\ otp_input' = otp_input
              /\ bl_pc' = "page_source"
    /\ UNCHANGED <<envVars, examined, gv_result, submitted, bl_scan, bl_result, notBlVars>>

\* get_verification_code, first part: time.sleep(5), then
\* get_verification_email_ids; no matching mail is a VerificationCodeError.
BLListEmailIds ==
    /\ bl_pc = "list"
    /\ log' = Append(log, "gmail:list")
    /\ \E outcome \in ListOutcomes :
         LET r == ListRaises(outcome, VerificationEmailIds)
         IN  IF r # "none"
             THEN /\ gv_result' = r
                  /\ BLRaise(r)
                  /\ UNCHANGED bl_scan
             ELSE /\ bl_scan' = VerificationEmailIds
                  /\ bl_pc' = "scan"
                  /\ UNCHANGED <<bl_result, gv_result>>
    /\ UNCHANGED <<envVars, examined, otp_input, submitted, notBlVars>>

\* get_verification_code, one iteration of `for msg_id in email_ids`; the
\* code found is typed into code_input and submitted.
BLExamineEmail ==
    /\ bl_pc = "scan"
    /\ bl_scan # <<>>
    /\ \E api \in ApiOutcomes :
         LET r == VerificationCodeById(Head(bl_scan), now, api)
         IN  /\ examined' = Examine(Head(bl_scan), now, r)
             /\ CASE r.kind = "code" ->
                        /\ submitted' = [code |-> r.code, field |-> otp_input]
                        /\ log' = log \o <<"gmail:get", "submit:code">>
                        /\ bl_scan' = <<>>
                        /\ bl_pc' = "page_source"
                        /\ gv_result' = "code"
                        /\ UNCHANGED bl_result
                  [] r.kind = "VerificationCodeError" ->
                        /\ log' = Append(log, "gmail:get")
                        /\ bl_scan' = Tail(bl_scan)
                        /\ UNCHANGED <<submitted, bl_pc, bl_result, gv_result>>
                  [] OTHER ->
                        /\ log' = Append(log, "gmail:get")
                        /\ bl_scan' = <<>>
                        /\ gv_result' = OnCodeError(r.kind)
                        /\ BLRaise(OnCodeError(r.kind))
                        /\ UNCHANGED submitted
    /\ UNCHANGED <<envVars, otp_input, notBlVars>>

\* get_verification_code: every id was examined and none gave a valid code.
BLNoValidCode ==
    /\ bl_pc = "scan"
    /\ bl_scan = <<>>
    /\ BLRaise("VerificationCodeError")
    /\ gv_result' = "VerificationCodeError"
    /\ UNCHANGED <<envVars, examined, log, otp_input, submitted, bl_scan, notBlVars>>

\* with open("page_source.html", "w") ...: f.write(self.driver.page_source)
BLSavePageSource ==
    /\ bl_pc = "page_source"
    /\ log' = Append(log, "write:page_source")
    /\ \E w \in WriteOutcomes :
         IF w = "ok"
         THEN bl_pc' = "marker" /\ UNCHANGED bl_result
         ELSE BLRaise("OSError")
    /\ UNCHANGED <<envVars, examined, gv_result, otp_input, submitted, bl_scan, notBlVars>>

\* self.wait_and_find_element(By.CLASS_NAME, "accounts")
BLCheckMarker ==
    /\ bl_pc = "marker"
    /\ \E outcome \in LookupOutcomes :
         IF BrowserWaitAndFind(outcome) = "found"
         THEN /\ log' = Append(log, "find:accounts")
              /\ bl_pc' = "done"
              /\ bl_result' = "ok"
         ELSE /\ log' = log \o <<"find:accounts", "notfound:accounts">>
              /\ BLRaise(BrowserWaitAndFind(outcome))
    /\ UNCHANGED <<envVars, examined, gv_result, otp_input, submitted, bl_scan, notBlVars>>

NextBrowserLogin ==
    \/ BLNavigate
    \/ BLSubmitEmail
    \/ BLSubmitPassword
    \/ BLCreateGmailClient
    \/ BLFindCurrentOtp
    \/ BLFindLegacyOtp
    \/ BLListEmailIds
    \/ BLExamineEmail
    \/ BLNoValidCode
    \/ BLSavePageSource
    \/ BLCheckMarker
    \/ Tick
    \/ MailArrives


(***************************************************************************)
(* AuthenticationManager.login and MoneyForwardTwoFactorAuthenticator       *)
(* (src/src/scraper/auth/authenticator.py), with BaseSeleniumManager        *)
(* (src/src/scraper/base/selenium_manager.py) as the browser.               *)
(***************************************************************************)
MaxAttempts == 10       \* max_attempts of _wait_for_new_verification_email
PollInterval == 3       \* time.sleep(3)

None == 0               \* no message id
Unset == -1             \* the variable was not assigned yet

\* GmailClient.get_latest_verification_email_id: the id of the most recent
\* matching message, None when there is none, or an error of the Gmail API.
LatestVerificationEmailId(api) ==
    IF api = "api_error" THEN [kind |-> "GmailApiError", id |-> None]
    ELSE IF mailbox = <<>> THEN [kind |-> "id", id |-> None]
    ELSE [kind |-> "id", id |-> mailbox[1].id]

\* BaseSeleniumManager.wait_and_find_element: the element, or ScrapingError
\* when the wait times out (the TimeoutException is caught and converted).
BaseWaitAndFind(outcome) ==
    IF outcome = "found" THEN "found" ELSE "ScrapingError"

\* handle_2fa, `except TimeoutException:` around a one-time-code field lookup:
\* whether the exception of the lookup is caught there.
OtpLookupCaught(exc) == exc = "TimeoutException"

\* _wait_for_new_verification_email:
\* `if last_email_id is None or email_id != last_email_id`
MutIsNewEmailAlways(last, id) == TRUE
IsNewEmail(last, id) == last = None \/ id # last

\* The except clauses of handle_2fa: every exception becomes AuthenticationError.
Handle2faExcept(exc) == "AuthenticationError"

\* The except clauses of AuthenticationManager.login. AuthenticationError is
\* re-raised; the other handlers write error_page.html first, and an error of
\* that write leaves login instead.
AuthLoginExcept(exc, write) ==
    IF exc = "AuthenticationError" THEN "AuthenticationError"
    ELSE IF write = "ok" THEN "AuthenticationError" ELSE "OSError"

\* login ends with exception `exc` raised in its try block outside handle_2fa.
AURaise(exc) ==
    /\ \E w \in WriteOutcomes : au_result' = AuthLoginExcept(exc, w)
    /\ au_cause' = exc
    /\ au_pc' = "done"

\* handle_2fa ends with exception `exc`; login re-raises its AuthenticationError.
AURaiseIn2fa(exc) ==
    /\ au_result' = AuthLoginExcept(Handle2faExcept(exc), "ok")
    /\ au_cause' = exc
    /\ au_pc' = "done"

IdleAuthLogin ==
    /\ au_pc = "idle"
    /\ au_2fa = FALSE
    /\ au_result = "none"
    /\ au_cause = "none"
    /\ last_email_id = Unset
    /\ new_email_id = Unset
    /\ au_attempt = 0
    /\ au_polls = 0
    /\ au_same = 0
    /\ au_slept = 0
    /\ time_bound = FALSE

InitAuthLogin ==
    /\ au_pc = "get"
    /\ au_2fa \in BOOLEAN
    /\ au_result = "none"
    /\ au_cause = "none"
    /\ last_email_id = Unset
    /\ new_email_id = Unset
    /\ au_attempt = 0
    /\ au_polls = 0
    /\ au_same = 0
    /\ au_slept = 0
    /\ time_bound = FALSE

waitVars == <<last_email_id, new_email_id, au_attempt, au_polls, au_same, au_slept,
              time_bound>>

\* self._browser.driver.get(url)
AUNavigate ==
    /\ au_pc = "get"
    /\ log' = Append(log, "get:login")
    /\ \E outcome \in {"ok", "WebDriverException"} :
         IF outcome = "ok"
         THEN au_pc' = "email" /\ UNCHANGED <<au_result, au_cause>>
         ELSE AURaise(outcome)
    /\ UNCHANGED <<envVars, examined, gv_result, otp_input, submitted, au_2fa, waitVars, notAuVars>>

\* Find the identifier field, type the address and submit the form.
AUSubmitEmail ==
    /\ au_pc = "email"
    /\ \E outcome \in LookupOutcomes :
         IF BaseWaitAndFind(outcome) = "found"
         THEN /\ log' = log \o <<"find:mfid_user[email]", "submit:email">>
              /\ au_pc' = "password"
              /\ UNCHANGED <<au_result, au_cause>>
         ELSE /\ log' = Append(log, "find:mfid_user[email]")
              /\ AURaise(BaseWaitAndFind(outcome))
    /\ UNCHANGED <<envVars, examined, gv_result, otp_input, submitted, au_2fa, waitVars, notAuVars>>

\* Find the secret field, type the password and submit the form; then
\* `if self._two_factor_auth:` selects the challenge step.
AUSubmitPassword ==
    /\ au_pc = "password"
    /\ \E outcome \in LookupOutcomes :
         IF BaseWaitAndFind(outcome) = "found"
         THEN /\ log' = log \o <<"find:mfid_user[password]", "submit:password">>
              /\ au_pc' = IF au_2fa THEN "baseline" ELSE "marker"
              /\ UNCHANGED <<au_result, au_cause>>
         ELSE /\ log' = Append(log, "find:mfid_user[password]")
              /\ AURaise(BaseWaitAndFind(outcome))
    /\ UNCHANGED <<envVars, examined, gv_result, otp_input, submitted, au_2fa, waitVars, notAuVars>>

\* handle_2fa: last_email_id = get_latest_verification_email_id()
AUCaptureBaseline ==
    /\ au_pc = "baseline"
    /\ log' = Append(log, "gmail:baseline")
    /\ \E api \in ApiOutcomes :
         LET r == LatestVerificationEmailId(api)
         IN  IF r.kind = "id"
             THEN /\ last_email_id' = r.id
                  /\ au_pc' = "challenge"
                  /\ UNCHANGED <<au_result, au_cause>>
             ELSE /\ AURaiseIn2fa(r.kind)
                  /\ UNCHANGED last_email_id
    /\ UNCHANGED <<envVars, examined, gv_result, otp_input, submitted, au_2fa, new_email_id,
                   au_attempt, au_polls, au_same, au_slept, time_bound, notAuVars>>

\* handle_2fa: look for the current one-time-code field and, when that lookup
\* raises TimeoutException, for the legacy one; when that raises
\* TimeoutException too, return.
AUFindOtpField ==
    /\ au_pc = "challenge"
    /\ \E o1 \in LookupOutcomes, o2 \in LookupOutcomes :
         LET r1 == BaseWaitAndFind(o1)
             r2 == BaseWaitAndFind(o2)
         IN  IF r1 = "found"
             THEN /\ log' = Append(log, "find:email_otp")
                  /\ otp_input' = CurrentOtpField
                  /\ au_pc' = "poll"
                  /\ UNCHANGED <<au_result, au_cause>>
             ELSE IF ~ OtpLookupCaught(r1)
             THEN /\ log' = log \o <<"find:email_otp", "notfound:email_otp">>
                  /\ AURaiseIn2fa(r1)
                  /\ UNCHANGED otp_input
             ELSE IF r2 = "found"
             THEN /\ log' = log \o <<"find:email_otp", "notfound:email_otp",
                                     "find:mfid_user[otp_attempt]">>
                  /\ otp_input' = LegacyOtpField
                  /\ au_pc' = "poll"
                  /\ UNCHANGED <<au_result, au_cause>>
             ELSE IF ~ OtpLookupCaught(r2)
             THEN /\ log' = log \o <<"find:email_otp", "notfound:email_otp",
                                     "find:mfid_user[otp_attempt]",
                                     "notfound:mfid_user[otp_attempt]">>
                  /\ AURaiseIn2fa(r2)
                  /\ UNCHANGED otp_input
             ELSE /\ log' = log \o <<"find:email_otp", "notfound:email_otp",
                                     "find:mfid_user[otp_attempt]",
                                     "notfound:mfid_user[otp_attempt]">>
                  /\ au_pc' = "marker"
                  /\ UNCHANGED <<otp_input, au_result, au_cause>>
    /\ UNCHANGED <<envVars, examined, gv_result, submitted, au_2fa, waitVars, notAuVars>>

\* _wait_for_new_verification_email: one iteration of `for attempt in range(10)`.
AUPollMailbox ==
    /\ au_pc = "poll"
    /\ au_attempt < MaxAttempts
    /\ log' = Append(log, "gmail:latest")
    /\ au_polls' = au_polls + 1
    /\ \E api \in ApiOutcomes :
         LET r == LatestVerificationEmailId(api)
         IN  /\ au_same' = IF r.kind = "id" /\ r.id = last_email_id
                           THEN au_same + 1 ELSE au_same
             /\ IF r.kind # "id"
                THEN \* except Exception: time.sleep(3), with `time` a local name
                     IF time_bound
                     THEN /\ au_attempt' = au_attempt + 1
                          /\ au_slept' = au_slept + PollInterval
                          /\ UNCHANGED <<au_pc, au_result, au_cause, new_email_id,
                                         time_bound>>
                     ELSE /\ AURaiseIn2fa("UnboundLocalError")
                          /\ UNCHANGED <<new_email_id, au_attempt, au_slept,
                                         time_bound>>
                ELSE IF IsNewEmail(last_email_id, r.id)
                THEN /\ new_email_id' = r.id
                     /\ au_pc' = "code"
                     /\ UNCHANGED <<au_result, au_cause, au_attempt, au_slept,
                                    time_bound>>
                ELSE /\ time_bound' = TRUE
                     /\ au_attempt' = au_attempt + 1
                     /\ au_slept' = au_slept + PollInterval
                     /\ UNCHANGED <<au_pc, au_result, au_cause, new_email_id>>
    /\ UNCHANGED <<envVars, examined, gv_result, otp_input, submitted, au_2fa, last_email_id,
                   notAuVars>>

\* _wait_for_new_verification_email: the loop ended, VerificationCodeError.
AUWaitTimedOut ==
    /\ au_pc = "poll"
    /\ au_attempt = MaxAttempts
    /\ AURaiseIn2fa("VerificationCodeError")
    /\ UNCHANGED <<envVars, loginVars, au_2fa, waitVars, notAuVars>>

\* handle_2fa: get_verification_code_by_id(new_email_id), then type the code
\* into code_input and submit.
AUSubmitCode ==
    /\ au_pc = "code"
    /\ \E api \in ApiOutcomes :
         LET r == VerificationCodeById(new_email_id, now, api)
         IN  /\ examined' = Examine(new_email_id, now, r)
             /\ IF r.kind = "code"
                THEN /\ submitted' = [code |-> r.code, field |-> otp_input]
                     /\ log' = log \o <<"gmail:get", "submit:code">>
                     /\ au_pc' = "marker"
                     /\ UNCHANGED <<au_result, au_cause>>
                ELSE /\ log' = Append(log, "gmail:get")
                     /\ AURaiseIn2fa(r.kind)
                     /\ UNCHANGED submitted
    /\ UNCHANGED <<envVars, gv_result, otp_input, au_2fa, waitVars, notAuVars>>

\* self._browser.wait_and_find_element(By.CLASS_NAME, "accounts")
AUCheckMarker ==
    /\ au_pc = "marker"
    /\ \E outcome \in LookupOutcomes :
         IF BaseWaitAndFind(outcome) = "found"
         THEN /\ log' = Append(log, "find:accounts")
              /\ au_pc' = "done"
              /\ au_result' = "ok"
              /\ UNCHANGED au_cause
         ELSE /\ log' = log \o <<"find:accounts", "notfound:accounts">>
              /\ AURaise(BaseWaitAndFind(outcome))
    /\ UNCHANGED <<envVars, examined, gv_result, otp_input, submitted, au_2fa, waitVars, notAuVars>>

NextAuthLogin ==
    \/ AUNavigate
    \/ AUSubmitEmail
    \/ AUSubmitPassword
    \/ AUCaptureBaseline
    \/ AUFindOtpField
    \/ AUPollMailbox
    \/ AUWaitTimedOut
    \/ AUSubmitCode
    \/ AUCheckMarker
    \/ Tick
    \/ MailArrives

(***************************************************************************)
(* retry_operation (src/src/scraper/browser.py and                         *)
(* src/src/scraper/base/selenium_manager.py: the two bodies are the same). *)
(***************************************************************************)
DefaultRetryCount == 3

Managers == {"BrowserManager", "BaseSeleniumManager"}

\* What the caller passes as *args, **kwargs.
ArgLists == {"args1", "args2"}

\* What the operation can return.
Values == {"element1", "element2"}

\* The exception classes an operation can raise.
ErrorClasses == {"NoSuchElementException", "StaleElementReferenceException",
                 "TimeoutException", "ScrapingError"}

\* An exception object: its class and the invocation that raised it.
Error(class, n) == [class |-> class, n |-> n]

NoError == Error("none", 0)

\* Outcomes of one invocation of the operation.
CallOutcomes ==
    {[kind |-> "value", value |-> v, class |-> "none"] : v \in Values}
    \cup {[kind |-> "raise", value |-> "none", class |-> c] : c \in ErrorClasses}

NoResult == [kind |-> "none", value |-> "none", error |-> NoError, cause |-> NoError]

\* except (NoSuchElementException, StaleElementReferenceException)
MutIsTransientNone(class) == FALSE
MutIsTransientAll(class) == TRUE
IsTransient(class) ==
    class \in {"NoSuchElementException", "StaleElementReferenceException"}

\* for attempt in range(self.retry_count)
MutInRangeOneMore(attempt, count) == attempt < count + 1
InRange(attempt, count) == attempt < count

\* if attempt < self.retry_count - 1: ... time.sleep(1)
SleepsAfter(attempt, count) == attempt < count - 1

\* operation(*args, **kwargs)
Invoke(args, outcome) ==
    [args |-> args, kind |-> outcome.kind, value |-> outcome.value,
     class |-> outcome.class]

IdleRetry ==
    /\ rt_manager = "none"
    /\ retry_count = DefaultRetryCount
    /\ rt_args = "none"
    /\ rt_pc = "idle"
    /\ rt_attempt = 0
    /\ last_error = NoError
    /\ rt_calls = <<>>
    /\ rt_sleeps = 0
    /\ rt_result = NoResult

\* retry_operation(operation, *args, **kwargs) was called: last_error = None.
StartRetry ==
    /\ rt_manager \in Managers
    /\ retry_count \in 1..MaxRetry
    /\ rt_args \in ArgLists
    /\ rt_pc = "loop"
    /\ rt_attempt = 0
    /\ last_error = NoError
    /\ rt_calls = <<>>
    /\ rt_sleeps = 0
    /\ rt_result = NoResult

\* One iteration of the loop: invoke the operation and handle its outcome.
RetryAttempt ==
    /\ rt_pc = "loop"
    /\ InRange(rt_attempt, retry_count)
    /\ \E outcome \in CallOutcomes :
         LET n == Len(rt_calls) + 1
         IN  /\ rt_calls' = Append(rt_calls, Invoke(rt_args, outcome))
             /\ IF outcome.kind = "value"
                THEN /\ rt_result' = [kind |-> "value", value |-> outcome.value,
                                      error |-> NoError, cause |-> NoError]
                     /\ rt_pc' = "returned"
                     /\ UNCHANGED <<rt_attempt, last_error, rt_sleeps>>
                ELSE IF IsTransient(outcome.class)
                THEN /\ last_error' = Error(outcome.class, n)
                     /\ rt_sleeps' = IF SleepsAfter(rt_attempt, retry_count)
                                     THEN rt_sleeps + 1 ELSE rt_sleeps
                     /\ rt_attempt' = rt_attempt + 1
                     /\ UNCHANGED <<rt_pc, rt_result>>
                ELSE /\ rt_result' = [kind |-> "raise", value |-> "none",
                                      error |-> Error(outcome.class, n),
                                      cause |-> NoError]
                     /\ rt_pc' = "raised"
                     /\ UNCHANGED <<rt_attempt, last_error, rt_sleeps>>
    /\ UNCHANGED <<rt_manager, retry_count, rt_args, notRtVars>>

\* The loop is over: raise ScrapingError(f"... {last_error}").
RetryExhausted ==
    /\ rt_pc = "loop"
    /\ ~InRange(rt_attempt, retry_count)
    /\ rt_result' = [kind |-> "raise", value |-> "none",
                     error |-> Error("ScrapingError", 0), cause |-> last_error]
    /\ rt_pc' = "raised"
    /\ UNCHANGED <<rt_manager, retry_count, rt_args, rt_attempt, last_error,
                   rt_calls, rt_sleeps, notRtVars>>

NextRetry ==
    \/ RetryAttempt
    \/ RetryExhausted

(***************************************************************************)
(* BrowserManager: driver lifecycle and the driver guard of its operations *)
(* (src/src/scraper/browser.py).                                           *)
(***************************************************************************)
\* setup_driver: a driver, or ScrapingError (missing binaries, WebDriver error).
SetupOutcomes == {"ok", "ScrapingError"}

\* driver.quit() returns or raises.
QuitOutcomes == {"ok", "WebDriverException"}

\* __enter__: self.setup_driver(); return self
EnterDriver(outcome) ==
    IF outcome = "ok"
    THEN /\ driver' = "held"
         /\ acquired' = TRUE
    ELSE /\ UNCHANGED <<driver, acquired>>

\* __exit__: if self.driver: self.driver.quit(); self.driver = None
ExitDriver(outcome) ==
    IF driver = "held"
    THEN /\ quit_calls' = quit_calls + 1
         /\ driver' = IF outcome = "ok" THEN "none" ELSE "held"
    ELSE /\ UNCHANGED <<driver, quit_calls>>

\* The exception that leaves __exit__.
ExitRaises(outcome) ==
    IF driver = "held" /\ outcome # "ok" THEN outcome ELSE "none"

IdleDriver ==
    /\ driver = "none"
    /\ acquired = FALSE
    /\ quit_calls = 0

\* The operations that need a driver.
Operations == {"wait_and_find_element", "login", "get_links_for_download",
               "get_cookies"}

\* How an operation ends when a driver is held.
OperationOutcomes(op) ==
    IF op = "login" THEN {"ok", "AuthenticationError", "OSError"}
    ELSE {"ok", "ScrapingError"}

\* `if not self.driver: raise ScrapingError(...)`, the first statement of
\* every operation.
MutDriverGuardOff(held, outcome) == [result |-> outcome, actions |-> 1]
DriverGuard(held, outcome) ==
    IF held = "none"
    THEN [result |-> "ScrapingError", actions |-> 0]
    ELSE [result |-> outcome, actions |-> 1]

\* Invocations made by retry_operation for an operation ending in `result`.
Invocations(via_retry, result) ==
    IF via_retry /\ IsTransient(result) THEN retry_count ELSE 1

IdleWith ==
    /\ bm_pc = "idle"
    /\ bm_exc = "none"
    /\ op_log = <<>>

StartWith ==
    /\ bm_pc = "new"
    /\ bm_exc = "none"
    /\ op_log = <<>>

\* with manager as browser: __enter__
BMEnter ==
    /\ bm_pc = "new"
    /\ \E outcome \in SetupOutcomes :
         /\ EnterDriver(outcome)
         /\ bm_pc' = IF outcome = "ok" THEN "body" ELSE "exited"
         /\ bm_exc' = IF outcome = "ok" THEN "none" ELSE outcome
    /\ UNCHANGED <<quit_calls, op_log, notWithVars>>

\* An operation is called on the manager, directly or through
\* retry_operation: before setup, inside the with block or after teardown.
BMOperation ==
    /\ bm_pc \in {"new", "body", "exited"}
    /\ Len(op_log) < MaxOps
    /\ \E op \in Operations, via_retry \in BOOLEAN :
         \E outcome \in OperationOutcomes(op) :
            LET r == DriverGuard(driver, outcome)
            IN  op_log' = Append(op_log,
                    [op |-> op, driver |-> driver, via_retry |-> via_retry,
                     result |-> r.result,
                     invocations |-> Invocations(via_retry, r.result),
                     actions |-> r.actions * Invocations(via_retry, r.result)])
    /\ UNCHANGED <<bmVars, bm_pc, bm_exc, notWithVars>>

\* The with block is left, normally or by an exception: __exit__
BMExit ==
    /\ bm_pc = "body"
    /\ \E body_exc \in {"none", "Exception"}, outcome \in QuitOutcomes :
         /\ ExitDriver(outcome)
         /\ bm_exc' = IF ExitRaises(outcome) # "none"
                      THEN ExitRaises(outcome) ELSE body_exc
    /\ bm_pc' = "exited"
    /\ UNCHANGED <<acquired, op_log, notWithVars>>

NextWith ==
    \/ BMEnter
    \/ BMOperation
    \/ BMExit

(***************************************************************************)
(* MoneyForwardScraper.scrape (src/src/scraper/scraper.py)                 *)
(***************************************************************************)
\* The subclasses of MoneyForwardError (exceptions/custom_exceptions.py).
IsMoneyForwardError(class) ==
    class \in {"MoneyForwardError", "AuthenticationError", "ScrapingError"}

\* An exception: its class and the class its message names.
Exc(class, names) == [kind |-> "raised", class |-> class, names |-> names]

NoExc == [kind |-> "none", class |-> "none", names |-> "none"]

Returned == [kind |-> "returned", class |-> "none", names |-> "none"]

\* clean_download_dir unlinks every file; an error is logged and swallowed.
CleanOutcomes == {"ok", "fails"}

CleanDownloadDir(files, outcome) == IF outcome = "ok" THEN {} ELSE files

\* `except Exception as e` of the with block:
\* MoneyForwardError(f"...{e.__class__.__name__}: {e!s}")
InnerExcept(class) == Exc("MoneyForwardError", class)

\* A mutant of OuterWraps: the handler cleans up and wraps every exception.
MutOuterWrapsAll(exc) == TRUE

\* The except clauses of scrape: MoneyForwardError and its subclasses are
\* re-raised as they are; any other exception is wrapped after a cleanup.
OuterWraps(exc) == ~IsMoneyForwardError(exc.class)

OuterExcept(exc) ==
    IF OuterWraps(exc) THEN Exc("MoneyForwardError", exc.class) ELSE exc

\* get_links_for_download: the account page yields links, an empty list
\* (a table with no rows) or ScrapingError; the history page yields its own url.
LinkOutcomes(phase) ==
    IF phase = "detail" THEN {"some", "empty", "ScrapingError"}
    ELSE {"some", "ScrapingError"}

\* download_from_links: [] for no links; else files, or DownloadError when
\* nothing was downloaded.
DownloadOutcomes(ls) ==
    IF ls = "empty" THEN {"nothing"} ELSE {"files", "DownloadError"}

\* _aggregate_csv_files: nothing is written when no data frame was read.
AggregateOutcomes(files) ==
    IF files = {} THEN {"nothing"} ELSE {"written", "nothing", "MoneyForwardError"}

RawFile(phase) == IF phase = "detail" THEN "raw_detail" ELSE "raw_assets"

Stage(stage, phase, outcome) == [stage |-> stage, phase |-> phase, outcome |-> outcome]

IdleScrape ==
    /\ sc_env = "set"
    /\ sc_pc = "idle"
    /\ sc_phase = "none"
    /\ sc_links = "none"
    /\ sc_exc = NoExc
    /\ sc_result = NoExc
    /\ dir_files = {}
    /\ outputs = {}
    /\ sc_trace = <<>>
    /\ clean_failed = FALSE

\* scrape() was called; the working directory may hold files of an earlier run.
StartScrape ==
    /\ sc_env \in {"set", "missing"}
    /\ sc_pc = "check_env"
    /\ sc_phase = "none"
    /\ sc_links = "none"
    /\ sc_exc = NoExc
    /\ sc_result = NoExc
    /\ dir_files \in {{}, {"stale"}}
    /\ outputs = {}
    /\ sc_trace = <<>>
    /\ clean_failed = FALSE

\* An exception reaches the except clauses of scrape: scrape ends.
ScrapeRaise(exc) ==
    /\ sc_pc' = "done"
    /\ sc_result' = OuterExcept(exc)
    /\ \E c \in CleanOutcomes :
         IF OuterWraps(exc)
         THEN /\ dir_files' = CleanDownloadDir(dir_files, c)
              /\ clean_failed' = (clean_failed \/ (c = "fails" /\ dir_files # {}))
         ELSE UNCHANGED <<dir_files, clean_failed>>

\* An exception is raised inside the with block: the inner handler wraps it
\* and the with statement is left.
BodyRaise(class) ==
    /\ sc_exc' = InnerExcept(class)
    /\ sc_pc' = "exit"

\* self._check_env_variables()
ScCheckEnv ==
    /\ sc_pc = "check_env"
    /\ IF sc_env = "set"
       THEN /\ sc_pc' = "clean_dirs"
            /\ sc_trace' = Append(sc_trace, Stage("check_env", "none", "ok"))
            /\ UNCHANGED <<sc_result, dir_files, clean_failed>>
       ELSE /\ sc_trace' = Append(sc_trace, Stage("check_env", "none", "MoneyForwardError"))
            /\ ScrapeRaise(Exc("MoneyForwardError", "none"))
    /\ UNCHANGED <<sc_env, sc_phase, sc_links, sc_exc, outputs, bmVars, notScVars>>

\* self._clean_directories()
ScCleanDirectories ==
    /\ sc_pc = "clean_dirs"
    /\ \E c \in CleanOutcomes :
         /\ dir_files' = CleanDownloadDir(dir_files, c)
         /\ clean_failed' = (clean_failed \/ (c = "fails" /\ dir_files # {}))
         /\ sc_trace' = Append(sc_trace, Stage("clean_dirs", "none", c))
    /\ sc_pc' = "enter"
    /\ UNCHANGED <<sc_env, sc_phase, sc_links, sc_exc, sc_result, outputs, bmVars,
                   notScVars>>

\* with self.browser_manager as browser: __enter__
ScEnter ==
    /\ sc_pc = "enter"
    /\ \E outcome \in SetupOutcomes :
         /\ EnterDriver(outcome)
         /\ sc_trace' = Append(sc_trace, Stage("enter", "none", outcome))
         /\ IF outcome = "ok"
            THEN /\ sc_pc' = "login"
                 /\ UNCHANGED <<sc_result, dir_files, clean_failed>>
            ELSE ScrapeRaise(Exc(outcome, "none"))
    /\ UNCHANGED <<sc_env, sc_phase, sc_links, sc_exc, outputs, quit_calls, notScVars>>

\* browser.login(email, password)
ScLogin ==
    /\ sc_pc = "login"
    /\ \E outcome \in OperationOutcomes("login") :
         /\ sc_trace' = Append(sc_trace, Stage("login", "none", outcome))
         /\ IF outcome = "ok"
            THEN /\ sc_pc' = "links"
                 /\ sc_phase' = "detail"
                 /\ UNCHANGED sc_exc
            ELSE /\ BodyRaise(outcome)
                 /\ UNCHANGED sc_phase
    /\ UNCHANGED <<sc_env, sc_links, sc_result, dir_files, outputs, clean_failed,
                   bmVars, notScVars>>

\* _download_and_aggregate: links = browser.get_links_for_download(endpoint)
ScGetLinks ==
    /\ sc_pc = "links"
    /\ \E outcome \in LinkOutcomes(sc_phase) :
         /\ sc_trace' = Append(sc_trace, Stage("links", sc_phase, outcome))
         /\ IF outcome = "ScrapingError"
            THEN /\ BodyRaise(outcome)
                 /\ UNCHANGED sc_links
            ELSE /\ sc_links' = outcome
                 /\ sc_pc' = "download"
                 /\ UNCHANGED sc_exc
    /\ UNCHANGED <<sc_env, sc_phase, sc_result, dir_files, outputs, clean_failed,
                   bmVars, notScVars>>

\* _download_and_aggregate: self.file_downloader.download_from_links(...)
ScDownload ==
    /\ sc_pc = "download"
    /\ \E outcome \in DownloadOutcomes(sc_links) :
         /\ sc_trace' = Append(sc_trace, Stage("download", sc_phase, outcome))
         /\ IF outcome = "DownloadError"
            THEN /\ BodyRaise(outcome)
                 /\ UNCHANGED dir_files
            ELSE /\ dir_files' = IF outcome = "files"
                                 THEN dir_files \cup {RawFile(sc_phase)}
                                 ELSE dir_files
                 /\ sc_pc' = "aggregate"
                 /\ UNCHANGED sc_exc
    /\ UNCHANGED <<sc_env, sc_phase, sc_links, sc_result, outputs, clean_failed,
                   bmVars, notScVars>>

\* _download_and_aggregate: self._aggregate_csv_files(output_path)
ScAggregate ==
    /\ sc_pc = "aggregate"
    /\ \E outcome \in AggregateOutcomes(dir_files) :
         /\ sc_trace' = Append(sc_trace, Stage("aggregate", sc_phase, outcome))
         /\ IF outcome = "MoneyForwardError"
            THEN /\ BodyRaise(outcome)
                 /\ UNCHANGED outputs
            ELSE /\ outputs' = IF outcome = "written"
                               THEN outputs \cup {sc_phase} ELSE outputs
                 /\ sc_pc' = IF sc_phase = "detail" THEN "mid_clean" ELSE "exit"
                 /\ UNCHANGED sc_exc
    /\ UNCHANGED <<sc_env, sc_phase, sc_links, sc_result, dir_files, clean_failed,
                   bmVars, notScVars>>

\* self.file_downloader.clean_download_dir() between the two pages
ScMidClean ==
    /\ sc_pc = "mid_clean"
    /\ \E c \in CleanOutcomes :
         /\ dir_files' = CleanDownloadDir(dir_files, c)
         /\ clean_failed' = (clean_failed \/ (c = "fails" /\ dir_files # {}))
         /\ sc_trace' = Append(sc_trace, Stage("mid_clean", "none", c))
    /\ sc_pc' = "links"
    /\ sc_phase' = "assets"
    /\ UNCHANGED <<sc_env, sc_links, sc_exc, sc_result, outputs, bmVars, notScVars>>

\* The with block is left: __exit__, then the except clauses of scrape.
ScExit ==
    /\ sc_pc = "exit"
    /\ \E outcome \in QuitOutcomes :
         /\ ExitDriver(outcome)
         /\ sc_trace' = Append(sc_trace, Stage("exit", "none", outcome))
         /\ IF ExitRaises(outcome) # "none"
            THEN ScrapeRaise(Exc(ExitRaises(outcome), "none"))
            ELSE IF sc_exc # NoExc
            THEN ScrapeRaise(sc_exc)
            ELSE /\ sc_pc' = "final_clean"
                 /\ UNCHANGED <<sc_result, dir_files, clean_failed>>
    /\ UNCHANGED <<sc_env, sc_phase, sc_links, sc_exc, outputs, acquired, notScVars>>

\* self.file_downloader.clean_download_dir() after the with block; return
ScFinalClean ==
    /\ sc_pc = "final_clean"
    /\ \E c \in CleanOutcomes :
         /\ dir_files' = CleanDownloadDir(dir_files, c)
         /\ clean_failed' = (clean_failed \/ (c = "fails" /\ dir_files # {}))
         /\ sc_trace' = Append(sc_trace, Stage("final_clean", "none", c))
    /\ sc_pc' = "done"
    /\ sc_result' = Returned
    /\ UNCHANGED <<sc_env, sc_phase, sc_links, sc_exc, outputs, bmVars, notScVars>>

NextScrape ==
    \/ ScCheckEnv
    \/ ScCleanDirectories
    \/ ScEnter
    \/ ScLogin
    \/ ScGetLinks
    \/ ScDownload
    \/ ScAggregate
    \/ ScMidClean
    \/ ScExit
    \/ ScFinalClean

(***************************************************************************)
(* CSV reading and aggregation: MoneyForwardScraper._read_csv_with_encoding *)
(* and _aggregate_csv_files (src/src/scraper/scraper.py), and               *)
(* MoneyForwardCSVProcessor (src/src/scraper/files/csv_processor.py).       *)
(***************************************************************************)
Aggregators == {"MoneyForwardScraper", "MoneyForwardCSVProcessor"}

\* encodings = ["utf-8", "shift-jis", "cp932"]
Encodings == <<"utf-8", "shift-jis", "cp932">>

\* pd.read_csv(file_path, encoding=e): UnicodeDecodeError, another exception,
\* a frame without data rows, or a frame with rows.
ParseOutcomes == {"decode_error", "error", "no_rows", "rows"}

\* The institution the processor halves (csv_processor.py:133).
Amex == "Amex"

Row(institution, amount) == [institution |-> institution, amount |-> amount]

\* The data rows a file can hold.
RowLists ==
    {<<Row("X", 2000)>>, <<Row("X", 2000), Row("Y", 2000)>>,
     <<Row("Y", 2000), Row("Y", 2000)>>, <<Row(Amex, 2000), Row("X", 1000)>>}

\* The columns of a file: the amount and institution columns with numeric
\* amounts, with an amount that is no number, or other columns only.
ColumnKinds == {"numeric", "non_numeric", "no_columns"}

CsvFile(size, profile, columns, rows) ==
    [size |-> size, profile |-> profile, columns |-> columns, rows |-> rows]

\* How a file parses under each encoding, in the order of Encodings.
Profiles == [1..3 -> ParseOutcomes]

ZeroByteFile == CsvFile("zero", [k \in 1..3 |-> "no_rows"], "no_columns", <<>>)

\* Single files of every parse profile.
AllFiles ==
    {ZeroByteFile}
    \cup {CsvFile("nonzero", pr, c, <<Row("X", 2000)>>) :
            pr \in Profiles, c \in ColumnKinds}

\* The files used in aggregations of several files.
SomeFiles ==
    {ZeroByteFile,
     CsvFile("nonzero", [k \in 1..3 |-> "decode_error"], "numeric", <<Row("X", 2000)>>),
     CsvFile("nonzero", [k \in 1..3 |-> "no_rows"], "numeric", <<>>),
     CsvFile("nonzero", <<"decode_error", "rows", "rows">>, "numeric",
             <<Row("Y", 2000)>>)}
    \cup {CsvFile("nonzero", [k \in 1..3 |-> "rows"], c, rs) :
            c \in ColumnKinds, rs \in RowLists}

\* The values the configuration accepts for SpecialRule.action.
ConfigActions == {"multiply", "divide", "add", "subtract"}

Rule(institution, action, value) ==
    [institution |-> institution, action |-> action, value |-> value]

\* settings.moneyforward.special_rules: no rule, or one rule on institution X.
RuleLists == {<<>>} \cup {<<Rule("X", a, 2)>> : a \in ConfigActions}

\* What reading a file returns: a frame, None, or CSVProcessingError.
Frame(encoding, rows, tried) ==
    [kind |-> "frame", encoding |-> encoding, rows |-> rows, tried |-> tried]

NoData(tried) == [kind |-> "none", encoding |-> "none", rows |-> <<>>, tried |-> tried]

ReadRaises(tried) ==
    [kind |-> "CSVProcessingError", encoding |-> "none", rows |-> <<>>, tried |-> tried]

\* _apply_money_forward_rules: the amount of the Amex rows is halved.
HalveAmex(rows) ==
    [k \in 1..Len(rows) |->
        IF rows[k].institution = Amex
        THEN Row(rows[k].institution, rows[k].amount \div 2)
        ELSE rows[k]]

\* `if df.empty: continue`: does this parse end the encoding loop?
MutParseWinsAlsoEmpty(outcome) == outcome \in {"rows", "no_rows"}
ParseWins(outcome) == outcome = "rows"

\* The encoding loop of _read_csv_with_encoding, from encoding k on.
RECURSIVE ScraperTryEncodings(_, _, _)
ScraperTryEncodings(file, k, tried) ==
    IF k > Len(Encodings) THEN NoData(tried)
    ELSE IF ParseWins(file.profile[k])
    THEN Frame(Encodings[k],
               IF file.profile[k] = "rows" THEN file.rows ELSE <<>>,
               Append(tried, Encodings[k]))
    ELSE ScraperTryEncodings(file, k + 1, Append(tried, Encodings[k]))

\* The encoding loop of MoneyForwardCSVProcessor.read_csv, from encoding k on:
\* an error of the rule application is caught by the loop's `except Exception`.
RECURSIVE ProcessorTryEncodings(_, _, _)
ProcessorTryEncodings(file, k, tried) ==
    IF k > Len(Encodings) THEN ReadRaises(tried)
    ELSE IF ParseWins(file.profile[k]) /\ file.columns # "non_numeric"
    THEN Frame(Encodings[k],
               IF file.profile[k] # "rows" THEN <<>>
               ELSE IF file.columns = "numeric" THEN HalveAmex(file.rows)
               ELSE file.rows,
               Append(tried, Encodings[k]))
    ELSE ProcessorTryEncodings(file, k + 1, Append(tried, Encodings[k]))

\* `if file_path.stat().st_size == 0`: is the file read at all?
MutZeroByteIsRead(file) == FALSE
ZeroByte(file) == file.size = "zero"

\* _read_csv_with_encoding(file_path) / read_csv(file_path)
ReadCsv(impl, file) ==
    IF impl = "MoneyForwardScraper"
    THEN IF ZeroByte(file) THEN NoData(<<>>)
         ELSE ScraperTryEncodings(file, 1, <<>>)
    ELSE IF ZeroByte(file) THEN Frame("none", <<>>, <<>>)
         ELSE ProcessorTryEncodings(file, 1, <<>>)

\* `if rule.action == "divide_amount"`: the only action the scraper applies.
RuleApplies(rule) == rule.action = "divide_amount"

ApplyRule(row, rule) ==
    IF RuleApplies(rule) /\ row.institution = rule.institution
    THEN Row(row.institution, row.amount \div rule.value)
    ELSE row

RECURSIVE ApplyRules(_, _)
ApplyRules(row, rules) ==
    IF rules = <<>> THEN row
    ELSE ApplyRules(ApplyRule(row, Head(rules)), Tail(rules))

\* The rule loop of _aggregate_csv_files over one frame.
ApplySpecialRules(rows, rules) ==
    [k \in 1..Len(rows) |-> ApplyRules(rows[k], rules)]

RECURSIVE Concat(_)
Concat(dfs) == IF dfs = <<>> THEN <<>> ELSE Head(dfs) \o Concat(Tail(dfs))

\* drop_duplicates(): the first occurrence of every row, in order.
MutDropDuplicatesKeepsAll(rows) == rows
RECURSIVE DropDuplicates(_)
DropDuplicates(rows) ==
    IF rows = <<>> THEN <<>>
    ELSE LET init == DropDuplicates(SubSeq(rows, 1, Len(rows) - 1))
             last == rows[Len(rows)]
         IN  IF \E k \in 1..Len(init) : init[k] = last
             THEN init ELSE Append(init, last)

\* `if df is not None` / `if not df.empty`: is the frame kept?
MutKeepsEveryFrame(impl, r) == r.kind = "frame"
KeepsFrame(impl, r) ==
    IF impl = "MoneyForwardScraper" THEN r.kind = "frame"
    ELSE r.kind = "frame" /\ r.rows # <<>>

\* to_csv(output_path) and the mkdir before it.
WriteOutputOutcomes == {"ok", "OSError"}

NoOutput == [written |-> FALSE, rows |-> <<>>]

Output(rows) == [written |-> TRUE, rows |-> rows]

\* The error class an aggregation raises.
AggregateError(impl) ==
    IF impl = "MoneyForwardScraper" THEN "MoneyForwardError" ELSE "CSVProcessingError"

IdleAggregate ==
    /\ ag_impl = "none"
    /\ ag_rules = <<>>
    /\ ag_files = <<>>
    /\ ag_pc = "idle"
    /\ ag_i = 1
    /\ all_dfs = <<>>
    /\ ag_reads = <<>>
    /\ ag_output = NoOutput
    /\ ag_result = "none"

\* An aggregation begins over the files of the directory / the given paths.
StartAggregate ==
    /\ ag_impl \in Aggregators
    /\ ag_rules \in RuleLists
    /\ \/ ag_files \in UNION {[1..n -> SomeFiles] : n \in 0..MaxFiles}
       \/ ag_files \in {<<f>> : f \in AllFiles}
    /\ ag_pc = "loop"
    /\ ag_i = 1
    /\ all_dfs = <<>>
    /\ ag_reads = <<>>
    /\ ag_output = NoOutput
    /\ ag_result = "none"

\* One iteration of the file loop: read the file, apply the rules, keep it.
AgProcessFile ==
    /\ ag_pc = "loop"
    /\ ag_i <= Len(ag_files)
    /\ LET file == ag_files[ag_i]
           r == ReadCsv(ag_impl, file)
       IN  /\ ag_reads' = Append(ag_reads, r)
           /\ IF ag_impl = "MoneyForwardScraper"
              THEN IF ~KeepsFrame(ag_impl, r)
                   THEN /\ ag_i' = ag_i + 1
                        /\ UNCHANGED <<all_dfs, ag_pc, ag_result>>
                   ELSE IF file.columns = "non_numeric"
                   THEN \* astype(float) raises: raise MoneyForwardError
                        /\ ag_pc' = "done"
                        /\ ag_result' = AggregateError(ag_impl)
                        /\ UNCHANGED <<all_dfs, ag_i>>
                   ELSE /\ all_dfs' = Append(all_dfs,
                               IF file.columns = "numeric"
                               THEN ApplySpecialRules(r.rows, ag_rules)
                               ELSE r.rows)
                        /\ ag_i' = ag_i + 1
                        /\ UNCHANGED <<ag_pc, ag_result>>
              ELSE \* read_csv raising is logged and the file skipped
                   /\ all_dfs' = IF KeepsFrame(ag_impl, r)
                                 THEN Append(all_dfs, r.rows) ELSE all_dfs
                   /\ ag_i' = ag_i + 1
                   /\ UNCHANGED <<ag_pc, ag_result>>
    /\ UNCHANGED <<ag_impl, ag_rules, ag_files, ag_output, notAgVars>>

\* After the loop: nothing to write, or concat, drop_duplicates and to_csv.
AgFinish ==
    /\ ag_pc = "loop"
    /\ ag_i > Len(ag_files)
    /\ ag_pc' = "done"
    /\ IF all_dfs = <<>>
       THEN /\ ag_result' = "returned"
            /\ UNCHANGED ag_output
       ELSE \E w \in WriteOutputOutcomes :
              IF w = "ok"
              THEN /\ ag_output' = Output(DropDuplicates(Concat(all_dfs)))
                   /\ ag_result' = "returned"
              ELSE /\ ag_result' = AggregateError(ag_impl)
                   /\ UNCHANGED ag_output
    /\ UNCHANGED <<ag_impl, ag_rules, ag_files, ag_i, all_dfs, ag_reads, notAgVars>>

NextAggregate ==
    \/ AgProcessFile
    \/ AgFinish

(***************************************************************************)
(* Link extraction: BrowserManager.get_links_for_download and              *)
(* _extract_links_from_accounts_page (src/src/scraper/browser.py).         *)
(***************************************************************************)
\* `"/accounts" in page_url`, `"/bs/history" in page_url`, or neither.
PageUrls == {"accounts", "history", "other"}

\* The page: every control is found, or the first step that fails.
Layouts == {"ok", "get_fails", "no_refresh_button", "no_accounts", "no_table",
            "rows_raise"}

\* A tr element: reading its link gives an href, an empty or missing href,
\* NoSuchElementException (no td, no a), StaleElementReferenceException, or
\* another WebDriver error.
RowKinds == {"link", "empty_href", "no_href", "no_element", "stale", "error"}

Hrefs == {"a", "b"}

TableRow(kind, href) == [kind |-> kind, href |-> href]

HeaderRow == TableRow("no_element", "")

TableRows ==
    {TableRow("link", h) : h \in Hrefs}
    \cup {TableRow(k, "") : k \in RowKinds \ {"link"}}

\* The rows of a table: none, or a first row and up to MaxRows further rows.
RowSeqs ==
    {<<>>} \cup
    {<<first>> \o rest :
        first \in {HeaderRow, TableRow("link", "a")},
        rest \in UNION {[1..n -> TableRows] : n \in 0..MaxRows}}

\* `if len(rows) <= 1: return []`
NoDataRows(rows) == Len(rows) <= 1

\* `rows = rows[1:]`
MutDataRowsKeepsFirst(rows) == rows
DataRows(rows) == Tail(rows)

\* The body of the row loop: find td, find a, get_attribute("href"), `if link`.
\* NoSuchElementException and StaleElementReferenceException are caught.
ReadRow(row) ==
    CASE row.kind = "link" -> "append"
      [] row.kind \in {"empty_href", "no_href"} -> "skip"
      [] row.kind \in {"no_element", "stale"} -> "continue"
      [] OTHER -> "raise"

NoLinks == [kind |-> "none", links |-> <<>>, class |-> "none"]

ReturnedLinks(ls) == [kind |-> "returned", links |-> ls, class |-> "none"]

LinksRaised(class) == [kind |-> "raised", links |-> <<>>, class |-> class]

IdleLinks ==
    /\ gl_page_url = "none"
    /\ gl_layout = "ok"
    /\ gl_table = <<>>
    /\ gl_rows = <<>>
    /\ gl_pc = "idle"
    /\ gl_k = 1
    /\ gl_links = <<>>
    /\ gl_result = NoLinks

StartLinks ==
    /\ gl_page_url \in PageUrls
    /\ gl_layout \in Layouts
    /\ gl_table \in RowSeqs
    /\ gl_layout # "ok" => gl_table = <<>>
    /\ gl_rows = <<>>
    /\ gl_pc = "start"
    /\ gl_k = 1
    /\ gl_links = <<>>
    /\ gl_result = NoLinks

\* get_links_for_download up to the branch on the URL: the driver guard,
\* driver.get(page_url), and for the accounts page the click on the refresh
\* button; the history page returns the current URL.
GetLinksOpen ==
    /\ gl_pc = "start"
    /\ IF driver = "none"
       THEN /\ gl_result' = LinksRaised("ScrapingError")
            /\ gl_pc' = "done"
       ELSE IF gl_layout = "get_fails"
       THEN /\ gl_result' = LinksRaised("WebDriverException")
            /\ gl_pc' = "done"
       ELSE IF gl_page_url = "accounts"
       THEN IF gl_layout = "no_refresh_button"
            THEN /\ gl_result' = LinksRaised("ScrapingError")
                 /\ gl_pc' = "done"
            ELSE /\ gl_pc' = "table"
                 /\ UNCHANGED gl_result
       ELSE IF gl_page_url = "history"
       THEN /\ gl_result' = ReturnedLinks(<<"current_url">>)
            /\ gl_pc' = "done"
       ELSE /\ gl_result' = LinksRaised("ScrapingError")
            /\ gl_pc' = "done"
    /\ UNCHANGED <<gl_page_url, gl_layout, gl_table, gl_rows, gl_k, gl_links, bmVars,
                   notGlVars>>

\* _extract_links_from_accounts_page up to the row loop: the accounts element,
\* the data table, its rows, the check for an empty table and `rows[1:]`.
ExtractTable ==
    /\ gl_pc = "table"
    /\ IF gl_layout \in {"no_accounts", "no_table", "rows_raise"}
       THEN /\ gl_result' = LinksRaised("ScrapingError")
            /\ gl_pc' = "done"
            /\ UNCHANGED <<gl_rows, gl_k>>
       ELSE IF NoDataRows(gl_table)
       THEN /\ gl_result' = ReturnedLinks(<<>>)
            /\ gl_pc' = "done"
            /\ gl_rows' = gl_table
            /\ UNCHANGED gl_k
       ELSE /\ gl_rows' = DataRows(gl_table)
            /\ gl_k' = 1
            /\ gl_pc' = "rows"
            /\ UNCHANGED gl_result
    /\ UNCHANGED <<gl_page_url, gl_layout, gl_table, gl_links, bmVars, notGlVars>>

\* One iteration of `for row in rows`.
ExtractRow ==
    /\ gl_pc = "rows"
    /\ gl_k <= Len(gl_rows)
    /\ LET row == gl_rows[gl_k]
       IN  IF ReadRow(row) = "raise"
           THEN /\ gl_result' = LinksRaised("ScrapingError")
                /\ gl_pc' = "done"
                /\ UNCHANGED <<gl_k, gl_links>>
           ELSE /\ gl_links' = IF ReadRow(row) = "append"
                                THEN Append(gl_links, row.href) ELSE gl_links
                /\ gl_k' = gl_k + 1
                /\ UNCHANGED <<gl_pc, gl_result>>
    /\ UNCHANGED <<gl_page_url, gl_layout, gl_table, gl_rows, bmVars, notGlVars>>

\* `return links` after the row loop.
ExtractReturn ==
    /\ gl_pc = "rows"
    /\ gl_k > Len(gl_rows)
    /\ gl_result' = ReturnedLinks(gl_links)
    /\ gl_pc' = "done"
    /\ UNCHANGED <<gl_page_url, gl_layout, gl_table, gl_rows, gl_k, gl_links, bmVars,
                   notGlVars>>

NextLinks ==
    \/ GetLinksOpen
    \/ ExtractTable
    \/ ExtractRow
    \/ ExtractReturn

(***************************************************************************)
(* MoneyForwardDownloader.download_file and download_files                 *)
(* (src/src/scraper/files/downloader.py).                                  *)
(***************************************************************************)
\* What happens to one download: the directory cannot be prepared, the request
\* raises urllib3's HTTPError or another exception, the response has a status
\* other than 200, writing the file raises OSError, streaming raises, or the
\* file is saved.
Downloads == {"prepare_fails", "http_error", "request_error", "status_404",
              "write_error", "stream_error", "saved"}

\* The downloads in which self._http.request returns a response.
ResponseObtained(d) == d \in {"status_404", "write_error", "stream_error", "saved"}

\* The exception of the request part: prepare_directory and a request error
\* other than HTTPError are not caught, HTTPError becomes DownloadError.
RequestRaises(d) ==
    CASE d = "prepare_fails" -> "OSError"
      [] d = "http_error" -> "DownloadError"
      [] d = "request_error" -> "Exception"
      [] OTHER -> "none"

\* `if response.status != 200: response.release_conn(); raise DownloadError`
StatusReleases(d) == IF d = "status_404" THEN 1 ELSE 0

\* The exception of the response part: status, write and stream errors all
\* become DownloadError.
SaveRaises(d) == IF d = "saved" THEN "none" ELSE "DownloadError"

\* `finally: if response: response.release_conn()`
FinallyReleases(response) == IF response = "held" THEN 1 ELSE 0

DownloadLog(i, d, released, exc) ==
    [index |-> i, download |-> d, released |-> released, raised |-> exc]

IdleMf ==
    /\ mf_urls = <<>>
    /\ mf_pc = "idle"
    /\ mf_i = 0
    /\ mf_response = "none"
    /\ mf_exc = "none"
    /\ mf_released = 0
    /\ mf_files = <<>>
    /\ mf_errors = 0
    /\ mf_log = <<>>
    /\ mf_result = "none"

StartMf ==
    /\ mf_urls \in UNION {[1..n -> Downloads] : n \in 0..MaxUrls}
    /\ mf_pc = "start"
    /\ mf_i = 0
    /\ mf_response = "none"
    /\ mf_exc = "none"
    /\ mf_released = 0
    /\ mf_files = <<>>
    /\ mf_errors = 0
    /\ mf_log = <<>>
    /\ mf_result = "none"

\* download_files: `if not urls: return []`
MfStart ==
    /\ mf_pc = "start"
    /\ IF mf_urls = <<>>
       THEN mf_pc' = "done" /\ mf_result' = "returned"
       ELSE mf_pc' = "loop" /\ UNCHANGED mf_result
    /\ UNCHANGED <<mf_urls, mf_i, mf_response, mf_exc, mf_released, mf_files,
                   mf_errors, mf_log, notMfVars>>

\* download_file, first part: prepare_directory, _prepare_headers and
\* self._http.request(...).
MfRequest ==
    /\ mf_pc = "loop"
    /\ mf_i < Len(mf_urls)
    /\ LET d == mf_urls[mf_i + 1]
       IN  /\ mf_response' = IF ResponseObtained(d) THEN "held" ELSE "none"
           /\ mf_exc' = RequestRaises(d)
           /\ mf_pc' = IF RequestRaises(d) = "none" THEN "save" ELSE "finally"
    /\ mf_released' = 0
    /\ UNCHANGED <<mf_urls, mf_i, mf_files, mf_errors, mf_log, mf_result, notMfVars>>

\* download_file, second part: the status check and the writing of the file.
MfSave ==
    /\ mf_pc = "save"
    /\ LET d == mf_urls[mf_i + 1]
       IN  /\ mf_released' = mf_released + StatusReleases(d)
           /\ mf_exc' = SaveRaises(d)
    /\ mf_pc' = "finally"
    /\ UNCHANGED <<mf_urls, mf_i, mf_response, mf_files, mf_errors, mf_log, mf_result,
                   notMfVars>>

\* The finally clause of download_file, and what the loop of download_files
\* does with the result: the path is appended, or the error recorded.
MfFinally ==
    /\ mf_pc = "finally"
    /\ LET released == mf_released + FinallyReleases(mf_response)
       IN  /\ mf_log' = Append(mf_log,
                               DownloadLog(mf_i, mf_urls[mf_i + 1], released, mf_exc))
           /\ mf_released' = released
    /\ IF mf_exc = "none"
       THEN mf_files' = Append(mf_files, mf_i) /\ UNCHANGED mf_errors
       ELSE mf_errors' = mf_errors + 1 /\ UNCHANGED mf_files
    /\ mf_response' = "none"
    /\ mf_exc' = "none"
    /\ mf_i' = mf_i + 1
    /\ mf_pc' = "loop"
    /\ UNCHANGED <<mf_urls, mf_result, notMfVars>>

\* download_files after the loop: DownloadError when every download failed.
MfFinish ==
    /\ mf_pc = "loop"
    /\ mf_i >= Len(mf_urls)
    /\ mf_pc' = "done"
    /\ mf_result' = IF mf_files = <<>> /\ mf_errors > 0
                     THEN "DownloadError" ELSE "returned"
    /\ UNCHANGED <<mf_urls, mf_i, mf_response, mf_exc, mf_released, mf_files,
                   mf_errors, mf_log, notMfVars>>

NextMf ==
    \/ MfStart
    \/ MfRequest
    \/ MfSave
    \/ MfFinally
    \/ MfFinish

(***************************************************************************)
(* The history page, from its address to its download                      *)
(* (src/src/config/settings.py, src/src/scraper/scraper.py,                *)
(*  src/src/scraper/browser.py, src/src/scraper/downloader.py)             *)
(***************************************************************************)
\* A URL is the sequence of its parts; "/" is a part of its own.
Scheme == <<"https:", "/", "/">>

\* Values of moneyforward.base_url that pass its pattern (no trailing slash).
RawBaseUrls == {Scheme \o <<"moneyforward.com">>, Scheme \o <<"example.com">>,
                <<"http:", "/", "/", "example.com">>}

\* Values of endpoints.history that pass its pattern (a leading slash).
HistoryEndpoints == {<<"/", "bs", "/", "history">>, <<"/", "history">>}

EndsWithSlash(v) == Len(v) > 0 /\ v[Len(v)] = "/"

\* validate_base_url: a slash is appended unless the value ends with one.
ValidateBaseUrl(v) == IF EndsWithSlash(v) THEN v ELSE v \o <<"/">>

\* f"{base_url}{endpoints.history}", in scrape and in download_from_links.
EndpointUrl(raw, endpoint) == ValidateBaseUrl(raw) \o endpoint

\* `needle in url` of get_links_for_download.
Contains(url, needle) ==
    \E k \in 0..(Len(url) - Len(needle)) :
        \A j \in 1..Len(needle) : url[k + j] = needle[j]

PageKind(url) ==
    IF Contains(url, <<"/", "accounts">>) THEN "accounts"
    ELSE IF Contains(url, <<"/", "bs", "/", "history">>) THEN "history"
    ELSE "other"

\* The address with every run of slashes after the scheme reduced to one.
RECURSIVE SingleSlashes(_)
SingleSlashes(path) ==
    IF Len(path) < 2 THEN path
    ELSE IF path[1] = "/" /\ path[2] = "/" THEN SingleSlashes(Tail(path))
    ELSE <<path[1]>> \o SingleSlashes(Tail(path))

Canonical(url) ==
    SubSeq(url, 1, Len(Scheme)) \o SingleSlashes(SubSeq(url, Len(Scheme) + 1, Len(url)))

\* What driver.current_url can be after driver.get(url): the site answers at
\* the address requested, or redirects to its canonical form, to the address
\* with a trailing slash, or to the sign-in page.
CurrentUrls(url) ==
    {url, Canonical(url), url \o <<"/">>, Scheme \o <<"id.moneyforward.com", "/", "sign_in">>}

\* `history_url == link` of download_from_links.
IsHistoryLink(raw, endpoint, link) == EndpointUrl(raw, endpoint) = link

\* download_url = f"{link}/csv"
CsvUrl(link) == link \o <<"/", "csv">>

IdleHistory ==
    /\ hl_raw_base = <<>>
    /\ hl_endpoint = <<>>
    /\ hl_pc = "idle"
    /\ hl_current = <<>>
    /\ hl_links = <<>>
    /\ hl_strategy = "none"
    /\ hl_today_clicked = FALSE
    /\ hl_month = 0
    /\ hl_fetched = <<>>
    /\ hl_files = <<>>

\* _download_and_aggregate(browser, history_endpoint, assets_output) begins.
StartHistory ==
    /\ hl_raw_base \in RawBaseUrls
    /\ hl_endpoint \in HistoryEndpoints
    /\ hl_pc = "get_links"
    /\ hl_current = <<>>
    /\ hl_links = <<>>
    /\ hl_strategy = "none"
    /\ hl_today_clicked = FALSE
    /\ hl_month = 0
    /\ hl_fetched = <<>>
    /\ hl_files = <<>>

\* get_links_for_download(history_endpoint): driver.get, then the branch on
\* the page url; the history branch returns [driver.current_url].
HistoryGetLinks ==
    /\ hl_pc = "get_links"
    /\ LET page_url == EndpointUrl(hl_raw_base, hl_endpoint)
       IN  /\ PageKind(page_url) # "accounts"
           /\ \E current \in CurrentUrls(page_url) :
                /\ hl_current' = current
                /\ IF PageKind(page_url) = "history"
                   THEN /\ hl_links' = <<current>>
                        /\ hl_pc' = "loop"
                   ELSE /\ hl_links' = <<>>
                        /\ hl_pc' = "raised"
    /\ UNCHANGED <<hl_raw_base, hl_endpoint, hl_strategy, hl_today_clicked, hl_month,
                   hl_fetched, hl_files>>
    /\ UNCHANGED notHlVars

\* download_from_links, link 0 equal to history_url: _download_history_page.
HistoryDownloadHistoryPage ==
    /\ hl_pc = "loop"
    /\ IsHistoryLink(hl_raw_base, hl_endpoint, hl_links[1])
    /\ hl_strategy' = "history"
    /\ hl_fetched' = CsvUrl(hl_links[1])
    /\ \E outcome \in FetchOutcomes :
         IF outcome = "ok"
         THEN /\ hl_files' = <<HistoryFile(0)>>
              /\ hl_pc' = "returned"
         ELSE /\ hl_files' = <<>>
              /\ hl_pc' = "raised"
    /\ UNCHANGED <<hl_raw_base, hl_endpoint, hl_current, hl_links, hl_today_clicked,
                   hl_month>>
    /\ UNCHANGED notHlVars

\* download_from_links, link 0 not equal to history_url:
\* _download_account_page gets the link and clicks the "today" button.
HistoryDownloadAccountPage ==
    /\ hl_pc = "loop"
    /\ ~IsHistoryLink(hl_raw_base, hl_endpoint, hl_links[1])
    /\ hl_strategy' = "account"
    /\ \E outcome \in AccountOpenOutcomes :
         /\ hl_today_clicked' = (outcome = "ok")
         /\ hl_pc' = IF outcome = "ok" THEN "month" ELSE "raised"
    /\ UNCHANGED <<hl_raw_base, hl_endpoint, hl_current, hl_links, hl_month,
                   hl_fetched, hl_files>>
    /\ UNCHANGED notHlVars

\* One month of the month loop of _download_account_page.
HistoryMonthlyData ==
    /\ hl_pc = "month"
    /\ hl_month < MaxMonths
    /\ \E outcome \in MonthOutcomes :
         /\ hl_files' = IF outcome = "ok"
                        THEN Append(hl_files, MonthFile(0, hl_month))
                        ELSE hl_files
         /\ hl_month' = NextMonth(hl_month)
    /\ UNCHANGED <<hl_raw_base, hl_endpoint, hl_pc, hl_current, hl_links, hl_strategy,
                   hl_today_clicked, hl_fetched>>
    /\ UNCHANGED notHlVars

\* The month loop ends; download_from_links returns the files or raises
\* DownloadError when there is none.
HistoryAccountPageEnd ==
    /\ hl_pc = "month"
    /\ hl_month >= MaxMonths
    /\ hl_pc' = IF AllFailed(hl_files) THEN "raised" ELSE "returned"
    /\ UNCHANGED <<hl_raw_base, hl_endpoint, hl_current, hl_links, hl_strategy,
                   hl_today_clicked, hl_month, hl_fetched, hl_files>>
    /\ UNCHANGED notHlVars

NextHistory ==
    \/ HistoryGetLinks
    \/ HistoryDownloadHistoryPage
    \/ HistoryDownloadAccountPage
    \/ HistoryMonthlyData
    \/ HistoryAccountPageEnd

(***************************************************************************)
(* The legacy entry point scrape (src/src/main.py)                         *)
(***************************************************************************)
\* The statements of the try block of scrape after the credentials check, in
\* order, and the errors each can raise. download_files_from_links catches
\* the errors of each link itself.
MainSteps ==
    <<"login_to_site", "clean_download_dir", "clean_detail_dir",
      "get_links_for_download", "download_accounts", "aggregate_detail",
      "clean_before_history", "download_history", "aggregate_assets",
      "clean_after_history">>

MainStepErrors(step) ==
    CASE step = "login_to_site" -> {"NoSuchElementException", "WebDriverException"}
      [] step = "get_links_for_download" -> {"NoSuchElementException"}
      [] step \in {"download_accounts", "download_history"} -> {}
      [] step \in {"aggregate_detail", "aggregate_assets"} ->
             {"OSError", "UnicodeDecodeError"}
      [] OTHER -> {"OSError"}

\* `finally: driver.quit()`: the local name `driver` is bound only once
\* configure_chrome_driver has returned.
FinallyQuit(bound, quit) ==
    IF ~bound THEN "UnboundLocalError" ELSE IF quit = "ok" THEN "none" ELSE quit

IdleMain ==
    /\ mn_env = [email |-> TRUE, password |-> TRUE]
    /\ mn_pc = "idle"
    /\ mn_step = 0
    /\ mn_driver = "unbound"
    /\ mn_exc = "none"
    /\ mn_logged = <<>>
    /\ mn_quit_calls = 0
    /\ mn_result = "none"

\* scrape() was called; EMAIL and PASSWORD may or may not be set.
StartMain ==
    /\ mn_env \in [email : BOOLEAN, password : BOOLEAN]
    /\ mn_pc = "prepare"
    /\ mn_step = 0
    /\ mn_driver = "unbound"
    /\ mn_exc = "none"
    /\ mn_logged = <<>>
    /\ mn_quit_calls = 0
    /\ mn_result = "none"

\* An exception is raised in the try block: control goes to the handler.
MainRaise(exc) ==
    /\ mn_exc' = exc
    /\ mn_pc' = "except"

\* prepare_download_dir(download_dir): mkdir(parents=True, exist_ok=True)
MainPrepareDownloadDir ==
    /\ mn_pc = "prepare"
    /\ \E outcome \in {"ok", "OSError"} :
         IF outcome = "ok"
         THEN mn_pc' = "driver" /\ UNCHANGED mn_exc
         ELSE MainRaise(outcome)
    /\ UNCHANGED <<mn_env, mn_step, mn_driver, mn_logged, mn_quit_calls, mn_result>>
    /\ UNCHANGED notMnVars

\* driver = configure_chrome_driver(): SELENIUM_URL is read and the remote
\* driver is created; an error is logged there and raised again.
MainConfigureChromeDriver ==
    /\ mn_pc = "driver"
    /\ \E outcome \in {"ok", "KeyError", "WebDriverException"} :
         IF outcome = "ok"
         THEN /\ mn_driver' = "bound"
              /\ mn_pc' = "env"
              /\ UNCHANGED mn_exc
         ELSE /\ MainRaise(outcome)
              /\ UNCHANGED mn_driver
    /\ UNCHANGED <<mn_env, mn_step, mn_logged, mn_quit_calls, mn_result>>
    /\ UNCHANGED notMnVars

\* `if email is None or password is None: raise ValueError(...)`
MainCheckCredentials ==
    /\ mn_pc = "env"
    /\ IF mn_env.email /\ mn_env.password
       THEN /\ mn_pc' = "steps"
            /\ mn_step' = 1
            /\ UNCHANGED mn_exc
       ELSE /\ MainRaise("ValueError")
            /\ UNCHANGED mn_step
    /\ UNCHANGED <<mn_env, mn_driver, mn_logged, mn_quit_calls, mn_result>>
    /\ UNCHANGED notMnVars

\* One of the statements from login_to_site to the last clean_download_dir.
MainStep ==
    /\ mn_pc = "steps"
    /\ mn_step <= Len(MainSteps)
    /\ \E outcome \in {"ok"} \cup MainStepErrors(MainSteps[mn_step]) :
         IF outcome = "ok"
         THEN /\ mn_step' = mn_step + 1
              /\ mn_pc' = IF mn_step = Len(MainSteps) THEN "finally" ELSE "steps"
              /\ UNCHANGED mn_exc
         ELSE /\ MainRaise(outcome)
              /\ UNCHANGED mn_step
    /\ UNCHANGED <<mn_env, mn_driver, mn_logged, mn_quit_calls, mn_result>>
    /\ UNCHANGED notMnVars

\* `except Exception as e: logger.error(...)`
MainExcept ==
    /\ mn_pc = "except"
    /\ mn_logged' = Append(mn_logged, mn_exc)
    /\ mn_exc' = "none"
    /\ mn_pc' = "finally"
    /\ UNCHANGED <<mn_env, mn_step, mn_driver, mn_quit_calls, mn_result>>
    /\ UNCHANGED notMnVars

\* `finally: driver.quit()`, then the return or the exception of the clause.
MainFinally ==
    /\ mn_pc = "finally"
    /\ \E quit \in QuitOutcomes :
         LET raised == FinallyQuit(mn_driver = "bound", quit)
         IN  /\ mn_quit_calls' = IF mn_driver = "bound"
                                 THEN mn_quit_calls + 1 ELSE mn_quit_calls
             /\ mn_result' = IF raised = "none" THEN "returned" ELSE raised
    /\ mn_pc' = "done"
    /\ UNCHANGED <<mn_env, mn_step, mn_driver, mn_exc, mn_logged>>
    /\ UNCHANGED notMnVars

NextMain ==
    \/ MainPrepareDownloadDir
    \/ MainConfigureChromeDriver
    \/ MainCheckCredentials
    \/ MainStep
    \/ MainExcept
    \/ MainFinally

(***************************************************************************)
(* Claims about FileDownloader.download_from_links, under SpecDownload.     *)
(***************************************************************************)
DownloadEnded == dl_pc \in {"returned", "raised"}

LastAttempted == attempted[Len(attempted)]

AllLinksInOrder == [k \in 1..Len(links) |-> k - 1]

\* The first download of the run failed: the first download_file call ended in
\* a failure, or the processing of the first link raised.
FirstDownloadFailed ==
    \/ 0 \in failed_links
    \/ first_fetch.outcome \in FetchFailures

FirstFailedLink == IF 0 \in failed_links THEN 0 ELSE first_fetch.link

C2_FailureAfterSuccessIsSkipped ==
    /\ fetched_ok # <<>> => dl_pc # "raised"
    /\ dl_pc = "returned" =>
        /\ attempted = AllLinksInOrder
        /\ downloaded_files = fetched_ok

C2_Witness ==
    /\ dl_pc = "returned"
    /\ Len(links) = 3
    /\ failed_links = {1}
    /\ Len(downloaded_files) = 2
    /\ downloaded_files[1].index = 0
    /\ downloaded_files[2].index = 2

\* C3: an empty link list returns [] without error; a run that attempted at
\* least one link and ends with no downloaded file ends in DownloadError.
C3_EmptyReturnsAllFailedRaises ==
    /\ (links = <<>> /\ dl_pc \notin {"idle", "start"}) =>
        /\ dl_pc = "returned"
        /\ downloaded_files = <<>>
        /\ dl_error = "none"
    /\ (DownloadEnded /\ attempted # <<>> /\ fetched_ok = <<>>) =>
        dl_pc = "raised"

C3_Witness ==
    /\ dl_pc = "raised"
    /\ dl_error = "all"
    /\ Len(links) >= 2
    /\ attempted = AllLinksInOrder
    /\ fetched_ok = <<>>

(***************************************************************************)
(* Claims about retry_operation, under SpecRetry.                          *)
(***************************************************************************)
RetryEnded == rt_pc \in {"returned", "raised"}

\* The error classes the claims call transient.
ClaimedTransient == {"NoSuchElementException", "StaleElementReferenceException"}

\* The invocations before the latest one all raised a transient error.
EarlierCallsTransient ==
    \A k \in 1..(Len(rt_calls) - 1) :
        rt_calls[k].kind = "raise" /\ rt_calls[k].class \in ClaimedTransient

AllCallsTransient ==
    \A k \in 1..Len(rt_calls) :
        rt_calls[k].kind = "raise" /\ rt_calls[k].class \in ClaimedTransient

\* C13: when the operation raises NoSuchElementException or
\* StaleElementReferenceException f times, f < retry_count, and then succeeds,
\* retry_operation returns the operation's value after exactly f + 1
\* invocations, each with the caller's arguments.
C13_TransientThenSuccessReturns ==
    /\ (AllCallsTransient /\ Len(rt_calls) < retry_count) => rt_pc = "loop"
    /\ \A k \in 1..Len(rt_calls) : rt_calls[k].args = rt_args
    /\ (rt_calls # <<>> /\ rt_calls[Len(rt_calls)].kind = "value") =>
          /\ EarlierCallsTransient
          /\ Len(rt_calls) - 1 < retry_count
          /\ rt_pc = "returned"
          /\ rt_result.kind = "value"
          /\ rt_result.value = rt_calls[Len(rt_calls)].value
    /\ rt_pc = "returned" =>
          rt_calls # <<>> /\ rt_calls[Len(rt_calls)].kind = "value"

C13_Witness ==
    /\ rt_pc = "returned"
    /\ retry_count = 3
    /\ Len(rt_calls) = 3
    /\ rt_calls[1].class = "NoSuchElementException"
    /\ rt_calls[2].class = "StaleElementReferenceException"
    /\ rt_result.value = "element2"

\* C14: when the operation raises a transient error on each of its first
\* retry_count invocations, retry_operation raises ScrapingError reporting the
\* error of the last attempt, and the operation is invoked exactly retry_count
\* times, never more.
C14_ExhaustedRaisesScrapingError ==
    /\ Len(rt_calls) <= retry_count
    /\ (AllCallsTransient /\ Len(rt_calls) = retry_count) =>
          /\ last_error = Error(rt_calls[retry_count].class, retry_count)
          /\ rt_attempt = retry_count
          /\ RetryEnded =>
                /\ rt_result.kind = "raise"
                /\ rt_result.error.class = "ScrapingError"
                /\ rt_result.cause = last_error
    /\ (RetryEnded /\ AllCallsTransient) => Len(rt_calls) = retry_count

C14_Witness ==
    /\ rt_pc = "raised"
    /\ retry_count = 3
    /\ Len(rt_calls) = 3
    /\ AllCallsTransient
    /\ rt_result.error.class = "ScrapingError"
    /\ rt_result.cause = Error(rt_calls[3].class, 3)
    /\ rt_calls[2].class # rt_calls[3].class

\* C15: an exception of any other class is not retried: it propagates
\* unchanged from the attempt on which it occurs, with no further invocation
\* and no backoff sleep.
C15_OtherErrorsPropagate ==
    \A k \in 1..Len(rt_calls) :
        (rt_calls[k].kind = "raise" /\ rt_calls[k].class \notin ClaimedTransient) =>
            /\ k = Len(rt_calls)
            /\ rt_pc = "raised"
            /\ rt_result.kind = "raise"
            /\ rt_result.error = Error(rt_calls[k].class, k)
            /\ rt_sleeps = k - 1

C15_Witness ==
    /\ rt_pc = "raised"
    /\ Len(rt_calls) = 2
    /\ retry_count = 3
    /\ rt_calls[2].class = "TimeoutException"
    /\ rt_result.error = Error("TimeoutException", 2)
    /\ rt_sleeps = 1

(***************************************************************************)
(* Claims about the login flows.                                           *)
(***************************************************************************)
\* C4: the one-time code submitted into the challenge field always comes from
\* a message that arrived during this login, never from a message a previous
\* run left in the mailbox.
C4_SubmittedCodeIsFresh ==
    submitted # NoCode => MessageById(submitted.code).fresh

Parseable(msg) == msg # NoMessage /\ msg.code = "present" /\ msg.expiry_text = "date"

\* C5: get_verification_code_by_id returns a code only while now <= expiry of
\* the same message (now = expiry is still valid); when now > expiry it raises
\* VerificationCodeError and returns no code.
C5_CodeOnlyWhileUnexpired ==
    \A k \in 1..Len(examined) :
        LET e == examined[k]
            msg == MessageById(e.id)
        IN  /\ e.kind = "code" =>
                /\ Parseable(msg)
                /\ e.at <= msg.expiry
                /\ e.code = CodeOf(msg)
            /\ (Parseable(msg) /\ e.kind # "GmailApiError") =>
                /\ e.at <= msg.expiry => e.kind = "code"
                /\ e.at > msg.expiry => e.kind = "VerificationCodeError" /\ e.code = 0

C5_Witness ==
    \E j, k \in 1..Len(examined) :
        /\ examined[j].kind = "VerificationCodeError"
        /\ Parseable(MessageById(examined[j].id))
        /\ examined[j].at > MessageById(examined[j].id).expiry
        /\ examined[k].kind = "code"
        /\ examined[k].at = MessageById(examined[k].id).expiry
        /\ submitted.code = examined[k].code

NeitherOtpFieldFound ==
    /\ "notfound:email_otp" \in Events
    /\ "notfound:mfid_user[otp_attempt]" \in Events

\* C6: _handle_two_factor_authentication tries email_otp and, only if that is
\* not found, mfid_user[otp_attempt]; if neither is found nothing is fetched
\* from the mailbox, nothing is submitted and login proceeds to the post-login
\* marker check; if either is found a code is fetched and submitted into the
\* field that was found.
C6_ChallengeFieldLookup ==
    /\ \A k \in 1..Len(log) :
          log[k] = "find:mfid_user[otp_attempt]" =>
              k > 1 /\ log[k - 1] = "notfound:email_otp"
    /\ "notfound:email_otp" \in Events =>
          bl_pc = "otp_legacy" \/ "find:mfid_user[otp_attempt]" \in Events
    /\ NeitherOtpFieldFound =>
          /\ "gmail:list" \notin Events
          /\ "gmail:get" \notin Events
          /\ submitted = NoCode
          /\ bl_pc = "done" => "find:accounts" \in Events
    /\ (otp_input # "none" /\ bl_pc = "done") => "gmail:list" \in Events
    /\ submitted # NoCode => (otp_input # "none" /\ submitted.field = otp_input)

\* C7: handle_2fa over BaseSeleniumManager.wait_and_find_element: when the
\* current field is not found the legacy field is tried next, and when neither
\* is found login continues to the post-login marker check.
C7_AbsentFieldIsNotAFailure ==
    /\ "notfound:email_otp" \in Events =>
          "find:mfid_user[otp_attempt]" \in Events
    /\ (NeitherOtpFieldFound /\ au_pc = "done") => "find:accounts" \in Events

\* C8: in every login that reaches the challenge step the baseline query
\* precedes the submission of the identifier form and of the secret form.
C8_BaselineBeforeCredentials ==
    /\ au_pc \in {"challenge", "poll", "code"} => "gmail:baseline" \in Events
    /\ \A i, j \in 1..Len(log) :
          (log[i] = "gmail:baseline" /\ log[j] \in {"submit:email", "submit:password"})
              => i < j

\* The wait was called with a baseline id and every query so far returned it.
EveryPollReturnedBaseline ==
    /\ last_email_id \notin {Unset, None}
    /\ au_polls >= 1
    /\ au_same = au_polls

C10_ReturnsExistingNewId ==
    new_email_id # Unset =>
        /\ new_email_id # None
        /\ MessageById(new_email_id) # NoMessage
        /\ new_email_id # last_email_id

\* C11: login succeeds only if the post-login marker (class "accounts") is
\* found after the challenge step; when the marker is absent BrowserManager.login
\* and AuthenticationManager.login raise AuthenticationError.
C11_MarkerDecidesLogin ==
    /\ (bl_result = "ok" \/ au_result = "ok") =>
          /\ "find:accounts" \in Events
          /\ "notfound:accounts" \notin Events
    /\ "notfound:accounts" \in Events =>
          /\ bl_pc = "done" => bl_result = "AuthenticationError"
          /\ au_pc = "done" => au_result = "AuthenticationError"

\* C12: every failure inside BrowserManager.login reaches the caller as
\* AuthenticationError, for every outcome of the diagnostic page-source
\* capture; no other exception class escapes login.
C12_OnlyAuthenticationErrorEscapes ==
    (bl_pc = "done" /\ bl_result # "ok") => bl_result = "AuthenticationError"

(***************************************************************************)
(* Claims about the BrowserManager lifecycle and MoneyForwardScraper.scrape.*)
(***************************************************************************)
\* C17: every BrowserManager operation invoked while no driver is held, before
\* setup or after teardown, raises ScrapingError without performing any
\* browser action, and retry_operation does not retry that error.
C17_NoDriverRaisesScrapingError ==
    \A k \in 1..Len(op_log) :
        op_log[k].driver = "none" =>
            /\ op_log[k].result = "ScrapingError"
            /\ op_log[k].actions = 0
            /\ op_log[k].invocations = 1

C17_Witness ==
    /\ bm_pc = "exited"
    /\ acquired
    /\ driver = "none"
    /\ Len(op_log) = 2
    /\ op_log[1].driver = "none" /\ op_log[1].op = "login"
    /\ op_log[1].result = "ScrapingError"
    /\ op_log[2].driver = "none" /\ op_log[2].op = "get_cookies"
    /\ op_log[2].via_retry /\ op_log[2].invocations = 1

\* C16: whenever __enter__ has acquired a driver, leaving the with block,
\* normally or by an exception, calls driver.quit() exactly once and sets
\* driver to None; no execution of scrape ends with the browser still held.
C16_DriverReleasedOnExit ==
    /\ quit_calls <= 1
    /\ (acquired /\ (bm_pc = "exited" \/ sc_pc \in {"final_clean", "done"})) =>
          /\ quit_calls = 1
          /\ driver = "none"
    /\ sc_pc = "done" => driver = "none"

ScrapeEnded == sc_pc = "done"

StageRan(stage) == \E k \in 1..Len(sc_trace) : sc_trace[k].stage = stage

\* C18: when scrape ends, on success and on every failure from login on, the
\* download working directory has been cleaned and holds no raw CSV file
\* (stated here for the runs in which no cleanup call failed to delete).
C18_WorkingDirectoryCleaned ==
    (ScrapeEnded /\ StageRan("login") /\ ~clean_failed) => dir_files = {}

\* C19: every execution of scrape either raises a MoneyForwardError or returns
\* having written both aggregated output files.
C19_BothOutputsOrError ==
    ScrapeEnded =>
        \/ sc_result.kind = "raised" /\ IsMoneyForwardError(sc_result.class)
        \/ sc_result.kind = "returned" /\ outputs = {"detail", "assets"}

ErrorClassesOfScrape == {"MoneyForwardError", "AuthenticationError", "OSError",
                         "ScrapingError", "DownloadError", "WebDriverException"}

\* The errors raised by the stages from the browser acquisition on.
UnderlyingErrors ==
    {sc_trace[k].outcome : k \in {j \in 1..Len(sc_trace) :
        /\ sc_trace[j].stage # "check_env"
        /\ sc_trace[j].outcome \in ErrorClassesOfScrape}}

\* C20: scrape raises no exception class other than MoneyForwardError; an
\* exception of login, link extraction, download, aggregation, or of acquiring
\* or releasing the browser becomes one MoneyForwardError whose message names
\* the class of the underlying error.
C20_OnlyMoneyForwardErrorNamingCause ==
    (ScrapeEnded /\ sc_result.kind = "raised") =>
        /\ sc_result.class = "MoneyForwardError"
        /\ UnderlyingErrors # {} => sc_result.names \in UnderlyingErrors

(***************************************************************************)
(* Claims about CSV reading and aggregation, under SpecAggregate.          *)
(***************************************************************************)
AggregateEnded == ag_pc = "done"

OutputWritten == ag_output.written

OutputRows == {ag_output.rows[k] : k \in 1..Len(ag_output.rows)}

\* The operation a correction rule names, as the configuration defines it.
ClaimedOperation(action, amount, value) ==
    CASE action = "multiply" -> amount * value
      [] action = "divide" -> amount \div value
      [] action = "add" -> amount + value
      [] action = "subtract" -> amount - value

ClaimedRow(row, rules) ==
    IF rules # <<>> /\ row.institution = rules[1].institution
    THEN Row(row.institution,
             ClaimedOperation(rules[1].action, row.amount, rules[1].value))
    ELSE row

\* C21: aggregation applies every configured rule (multiply, divide, add,
\* subtract) with its operand to the amount of every row of the rule's
\* institution and leaves the rows of other institutions unchanged.
C21_ConfiguredRulesAreApplied ==
    (/\ AggregateEnded
     /\ ag_impl = "MoneyForwardScraper"
     /\ OutputWritten
     /\ Len(ag_files) = 1
     /\ ag_files[1].columns = "numeric") =>
        OutputRows = {ClaimedRow(ag_files[1].rows[j], ag_rules) :
                        j \in 1..Len(ag_files[1].rows)}

\* A file some encoding parses into data rows and whose amounts are numbers.
Readable(file) ==
    /\ file.size = "nonzero"
    /\ \E k \in 1..3 : file.profile[k] = "rows"
    /\ file.columns # "non_numeric"

\* A file no encoding parses into data rows.
YieldsNoData(file) ==
    \/ file.size = "zero"
    \/ \A k \in 1..3 : file.profile[k] # "rows"

FailedInLoop == AggregateEnded /\ ag_result # "returned" /\ ag_i <= Len(ag_files)

RowsOfReadableFilesAreWritten ==
    (AggregateEnded /\ ag_result = "returned") =>
        \A k \in 1..Len(ag_files) :
            Readable(ag_files[k]) =>
                \A j \in 1..Len(ag_files[k].rows) :
                    \E o \in OutputRows : o.institution = ag_files[k].rows[j].institution

\* C22: aggregation never fails because of one bad file: a file that cannot be
\* decoded, or whose reading or rule processing raises, is skipped and the
\* rows of every other readable file still appear in the output.
C22_BadFileNeverFailsAggregation ==
    /\ ~FailedInLoop
    /\ RowsOfReadableFilesAreWritten

\* C22 as the code has it: an undecodable file is skipped by both classes and
\* MoneyForwardCSVProcessor skips every file that raises, while
\* MoneyForwardScraper ends in MoneyForwardError at a file whose rule
\* processing raises.
C22_OnlyRuleProcessingFailsScraper ==
    /\ FailedInLoop =>
          /\ ag_impl = "MoneyForwardScraper"
          /\ ag_files[ag_i].columns = "non_numeric"
          /\ \E k \in 1..3 : ag_files[ag_i].profile[k] = "rows"
          /\ ag_result = "MoneyForwardError"
    /\ RowsOfReadableFilesAreWritten

C22_Witness ==
    /\ AggregateEnded
    /\ ag_result = "returned"
    /\ Len(ag_files) = 2
    /\ \A k \in 1..3 : ag_files[1].profile[k] = "decode_error"
    /\ Readable(ag_files[2])
    /\ ag_output = Output(ag_files[2].rows)
    /\ ag_impl = "MoneyForwardScraper"

\* C23: the output holds each distinct row of the frames that were read exactly
\* once: no two output rows are identical, and aggregating [f, f] yields the
\* row set of aggregating [f].
C23_OutputRowsAreDistinct ==
    (AggregateEnded /\ OutputWritten) =>
        /\ \A i, j \in 1..Len(ag_output.rows) :
              ag_output.rows[i] = ag_output.rows[j] => i = j
        /\ OutputRows = UNION {{all_dfs[k][j] : j \in 1..Len(all_dfs[k])} :
                                 k \in 1..Len(all_dfs)}
        /\ (Len(all_dfs) = 2 /\ all_dfs[1] = all_dfs[2]) =>
              OutputRows = {all_dfs[1][j] : j \in 1..Len(all_dfs[1])}

C23_Witness ==
    /\ AggregateEnded
    /\ Len(ag_files) = 2
    /\ ag_files[1] = ag_files[2]
    /\ ag_files[1].rows = <<Row("Y", 2000), Row("Y", 2000)>>
    /\ ag_output = Output(<<Row("Y", 2000)>>)

\* The first encoding under which the file parses into data rows (0: none).
FirstParsing(file) ==
    IF \E k \in 1..3 : file.profile[k] = "rows"
    THEN CHOOSE k \in 1..3 :
            /\ file.profile[k] = "rows"
            /\ \A j \in 1..(k - 1) : file.profile[j] # "rows"
    ELSE 0

\* C24: reading tries utf-8, shift-jis, cp932 in this order and returns the
\* parse of the first encoding that decodes and yields a data row; no later
\* encoding is tried after it, and an encoding that yields no rows does not win.
C24_FirstParsingEncodingWins ==
    \A k \in 1..Len(ag_reads) :
        LET file == ag_files[k]
            w == FirstParsing(file)
        IN  /\ ag_reads[k].tried = SubSeq(<<"utf-8", "shift-jis", "cp932">>, 1,
                                          Len(ag_reads[k].tried))
            /\ (file.size = "nonzero" /\ w # 0) =>
                  /\ ag_reads[k].kind = "frame"
                  /\ ag_reads[k].encoding = <<"utf-8", "shift-jis", "cp932">>[w]
                  /\ Len(ag_reads[k].tried) = w
            /\ (file.size = "nonzero" /\ w = 0) => ag_reads[k].kind # "frame"

\* C25: a zero-byte file is "no data": reading it returns None / an empty frame
\* without raising and without trying any encoding, and the file contributes
\* no rows to the aggregated result.
C25_ZeroByteFileIsNoData ==
    /\ \A k \in 1..Len(ag_reads) :
          ag_files[k].size = "zero" =>
              /\ ag_reads[k].tried = <<>>
              /\ ag_reads[k].rows = <<>>
              /\ ag_reads[k].kind =
                    IF ag_impl = "MoneyForwardScraper" THEN "none" ELSE "frame"
    /\ Len(all_dfs) <= Cardinality({k \in 1..Len(ag_reads) : ag_files[k].size # "zero"})
    /\ (\A k \in 1..Len(ag_files) : ag_files[k].size = "zero") =>
          (all_dfs = <<>> /\ ~OutputWritten)

C25_Witness ==
    /\ AggregateEnded
    /\ ag_result = "returned"
    /\ Len(ag_files) = 2
    /\ ag_files[1].size = "zero"
    /\ ag_impl = "MoneyForwardCSVProcessor"
    /\ Len(all_dfs) = 1
    /\ ag_output = Output(<<Row("X", 2000), Row("Y", 2000)>>)

\* C26: if no input file yields data (no files, or every file empty,
\* header-only or unreadable), aggregation returns without raising and writes
\* no output file.
C26_NoDataWritesNothing ==
    (AggregateEnded /\ \A k \in 1..Len(ag_files) : YieldsNoData(ag_files[k])) =>
        /\ ag_result = "returned"
        /\ ~OutputWritten

C26_Witness ==
    /\ AggregateEnded
    /\ Len(ag_files) = 2
    /\ ag_files[1].size = "zero"
    /\ ag_files[2].size = "nonzero"
    /\ \A k \in 1..3 : ag_files[2].profile[k] = "no_rows"
    /\ ag_impl = "MoneyForwardCSVProcessor"
    /\ ag_result = "returned"
    /\ ~OutputWritten

(***************************************************************************)
(* Claims about BrowserManager.get_links_for_download, under SpecLinks.    *)
(***************************************************************************)
\* The accounts page was reached with a driver and its table was found.
OnAccountsPage ==
    /\ gl_page_url = "accounts"
    /\ driver = "held"
    /\ gl_layout = "ok"

\* The hrefs of the rows whose link can be read, in row order.
RECURSIVE ReadableHrefs(_)
ReadableHrefs(rs) ==
    IF rs = <<>> THEN <<>>
    ELSE (IF Head(rs).kind = "link" THEN <<Head(rs).href>> ELSE <<>>)
            \o ReadableHrefs(Tail(rs))

\* The kinds of row the claim speaks of.
ClaimedRowKinds == {"link", "empty_href", "no_href", "no_element", "stale"}

\* C27: on the accounts page get_links_for_download returns [] and raises
\* nothing when the table has no row or only the header row; otherwise the
\* first row is skipped and one link is returned per further row whose link can
\* be read, in row order, a row with a missing or stale element or an empty
\* href being skipped without error.
C27_AccountLinksInRowOrder ==
    (/\ OnAccountsPage
     /\ gl_pc = "done"
     /\ \A k \in 1..Len(gl_table) : gl_table[k].kind \in ClaimedRowKinds) =>
        gl_result = IF Len(gl_table) <= 1
                    THEN ReturnedLinks(<<>>)
                    ELSE ReturnedLinks(
                            ReadableHrefs(SubSeq(gl_table, 2, Len(gl_table))))

C27_Witness ==
    /\ OnAccountsPage
    /\ gl_pc = "done"
    /\ gl_table = <<HeaderRow, TableRow("link", "b"), TableRow("stale", ""),
                    TableRow("link", "a")>>
    /\ gl_result = ReturnedLinks(<<"b", "a">>)

(***************************************************************************)
(* Claims about the month iterations of an account page, under             *)
(* SpecDownload.                                                           *)
(***************************************************************************)
\* C28: the file saved with month offset m holds the period m months before
\* the current one: when the CSV of offset m is fetched, exactly m
\* previous-period clicks were made since the click on "today".
C28_OffsetEqualsPrevClicks ==
    \A k \in 1..Len(month_log) :
        month_log[k].fetch # "none" => month_log[k].clicks = month_log[k].month

MonthsLogged == [k \in 1..Len(month_log) |-> month_log[k].month]

LinksAndMonthsInOrder ==
    /\ \A k \in 1..Len(attempted) : attempted[k] = k - 1
    /\ MonthsLogged = [k \in 1..Len(month_log) |-> k - 1]
    /\ Len(month_log) <= months
    /\ dl_pc = "month" => (LastAttempted = dl_i /\ Len(month_log) = dl_month)

\* A link is begun only between accounts, and the month loop of an account is
\* left only after the iteration of the last offset.
AccountFinishedBeforeNext ==
    /\ attempted' # attempted => dl_pc = "loop"
    /\ (dl_pc = "month" /\ dl_pc' # "month") =>
          MonthsLogged' = [k \in 1..months |-> k - 1]

\* C29: links are processed in list order, all month iterations of an account
\* are finished before the next link is begun, and the iterations of an account
\* run through the offsets 0, 1, ..., months_to_download - 1 without a gap.
C29_LinksAndMonthsInOrder ==
    []LinksAndMonthsInOrder /\ [][AccountFinishedBeforeNext]_vars

C29_Witness ==
    /\ dl_pc = "returned"
    /\ links = <<"account", "history", "account">>
    /\ attempted = <<0, 1, 2>>
    /\ months = 2
    /\ MonthsLogged = <<0, 1>>

\* The failures of opening an account page (navigation, "today" button).
OpenFailures == {"nav_error", "no_today_button"}

FailedMonthRaisesNothing ==
    /\ (dl_pc = "raised" /\ dl_error = "first" /\ links[dl_i + 1] = "account") =>
          (month_log = <<>> /\ last_outcome \in OpenFailures)
    /\ (dl_pc # "month" /\ month_log # <<>>) => Len(month_log) = months
    /\ (dl_pc = "returned" \/ (dl_pc = "raised" /\ dl_error = "all")) =>
          Len(attempted) = Len(links)

\* A month iteration is followed by the next offset of the same account.
MonthIterationContinues ==
    (dl_pc = "month" /\ month_log' # month_log) =>
        /\ dl_pc' = "month"
        /\ dl_i' = dl_i
        /\ dl_month' = dl_month + 1
        /\ dl_error' = dl_error

\* C30: a month iteration in which a control is not located or the fetch fails
\* raises nothing: the remaining months of the account and the remaining links
\* are still attempted, and every opened account page gets exactly
\* months_to_download iterations.
C30_FailedMonthIsSkipped ==
    []FailedMonthRaisesNothing /\ [][MonthIterationContinues]_vars

C30_Witness ==
    /\ dl_pc = "returned"
    /\ links = <<"account", "account">>
    /\ months = 2
    /\ attempted = <<0, 1>>
    /\ month_log = <<MonthEntry(0, 0, "none"), MonthEntry(1, 1, "saved")>>
    /\ fetched_ok = <<MonthFile(1, 1)>>
    /\ first_fetch = [link |-> 0, outcome |-> "http_error"]

(***************************************************************************)
(* Claims about the partial-success warning, under SpecDownload.           *)
(***************************************************************************)
\* The links of the run that produced no file.
LinksWithoutFile ==
    {i \in 0..(Len(links) - 1) :
        \A k \in 1..Len(downloaded_files) : downloaded_files[k].index # i}

\* C31: whenever download_from_links returns normally and at least one link
\* produced no file, the partial-success warning is logged; it is not logged
\* when every link produced a file.
C31_WarningIffSomeLinkFailed ==
    (dl_pc = "returned" /\ links # <<>>) =>
        (dl_warned <=> LinksWithoutFile # {})

(***************************************************************************)
(* Claims about GmailClient.get_verification_code, under SpecBrowserLogin. *)
(***************************************************************************)
CodeLookupEnded == gv_result # "none"

\* The loop of get_verification_code: ids most recent first and each once, a
\* VerificationCodeError moves on, the first valid code is returned, another
\* error of a message ends in GmailApiError.
ScanFollowsClaim ==
    /\ \A j, k \in 1..Len(examined) : j < k => examined[j].id > examined[k].id
    /\ \A k \in 1..(Len(examined) - 1) : examined[k].kind = "VerificationCodeError"
    /\ (CodeLookupEnded /\ examined # <<>>) =>
          LET last == examined[Len(examined)]
          IN  CASE last.kind = "code" ->
                      gv_result = "code" /\ submitted.code = last.code
                [] last.kind = "VerificationCodeError" ->
                      gv_result = "VerificationCodeError"
                [] OTHER -> gv_result = "GmailApiError"

\* C32: get_verification_code examines the ids most recent first and each at
\* most once, moves past a message that fails with VerificationCodeError,
\* returns the code of the first valid message, ends in GmailApiError at any
\* other error, and in VerificationCodeError when there is no message or no
\* valid one.
C32_CodeLookupEndsAsClaimed ==
    /\ ScanFollowsClaim
    /\ gv_result \in {"none", "code", "GmailApiError", "VerificationCodeError"}

(***************************************************************************)
(* Claims about MoneyForwardDownloader.download_file, under SpecMf.        *)
(***************************************************************************)
\* C33: download_file releases the connection of the response exactly once on
\* every path on which a response was obtained (saved file, status other than
\* 200, error while streaming or writing), and a status other than 200 raises
\* DownloadError.
C33_ResponseReleasedExactlyOnce ==
    \A k \in 1..Len(mf_log) :
        /\ ResponseObtained(mf_log[k].download) => mf_log[k].released = 1
        /\ mf_log[k].download = "status_404" => mf_log[k].raised = "DownloadError"

(***************************************************************************)
(* Claims about the stages of scrape, under SpecScrape.                    *)
(***************************************************************************)
\* The stages of scrape in the order of its statements.
StageOrder ==
    << <<"check_env", "none">>, <<"clean_dirs", "none">>, <<"enter", "none">>,
       <<"login", "none">>,
       <<"links", "detail">>, <<"download", "detail">>, <<"aggregate", "detail">>,
       <<"mid_clean", "none">>,
       <<"links", "assets">>, <<"download", "assets">>, <<"aggregate", "assets">>,
       <<"exit", "none">>, <<"final_clean", "none">> >>

StageAt(k) == <<sc_trace[k].stage, sc_trace[k].phase>>

StageFailed(k) == sc_trace[k].outcome \in ErrorClassesOfScrape

\* The k-th stage that ran is the k-th stage of scrape, and no stage before
\* it failed.
RanInTurn(k) ==
    /\ k <= Len(StageOrder)
    /\ StageAt(k) = StageOrder[k]
    /\ \A j \in 1..(k - 1) : ~StageFailed(j)

\* The browser release follows the stages that ran inside the with block,
\* which ran in turn; one of them may have failed.
ReleaseAfterBlock(k) ==
    /\ k > 1
    /\ RanInTurn(k - 1)
    /\ \E j \in 1..(k - 1) : sc_trace[j].stage = "login"

StagesInOrder ==
    \A k \in 1..Len(sc_trace) :
        IF sc_trace[k].stage = "exit"
        THEN ReleaseAfterBlock(k)
        ELSE RanInTurn(k)

\* A failed environment check ends scrape: no browser is acquired and no file
\* is deleted.
FailedEnvCheckTouchesNothing ==
    (sc_pc = "check_env" /\ sc_env = "missing") =>
        /\ sc_pc' = "done"
        /\ dir_files' = dir_files
        /\ acquired' = acquired

HistoryLinkHandled == hl_strategy # "none"

\* C35: the link discovered on the history page is downloaded with the
\* history strategy, one fetch of <link>/csv saved as <base>_<index>.csv, and
\* is never handled as an account page with the "today" click and the month
\* loop, whatever URL the browser reports as current.
C35_HistoryLinkUsesHistoryStrategy ==
    HistoryLinkHandled =>
        /\ hl_strategy = "history"
        /\ hl_fetched = CsvUrl(hl_links[1])
        /\ ~hl_today_clicked
        /\ \A k \in 1..Len(hl_files) : hl_files[k] = HistoryFile(0)

\* The part of C35 that holds: a link equal to the configured history URL is
\* fetched once at <link>/csv and saved as <base>_<index>.csv.
HistoryUrlReportedUsesHistoryStrategy ==
    (HistoryLinkHandled /\ hl_current = EndpointUrl(hl_raw_base, hl_endpoint)) =>
        /\ hl_strategy = "history"
        /\ hl_fetched = CsvUrl(hl_links[1])
        /\ ~hl_today_clicked
        /\ \A k \in 1..Len(hl_files) : hl_files[k] = HistoryFile(0)

(***************************************************************************)
(* Claims about the wait for the verification email, under SpecAuthLogin.  *)
(***************************************************************************)
\* _wait_for_new_verification_email was entered and returned no email id.
WaitEndedWithoutId == au_pc = "done" /\ au_polls > 0 /\ new_email_id = Unset

WaitTimedOut ==
    /\ au_polls = MaxAttempts
    /\ au_slept = MaxAttempts * PollInterval
    /\ au_cause = "VerificationCodeError"

\* C36: an error raised by a mailbox query on any poll, the first included,
\* does not end the polling: the wait sleeps 3 seconds and polls again, and
\* raises the timeout VerificationCodeError only after 10 polls.
C36_QueryErrorKeepsPolling == WaitEndedWithoutId => WaitTimedOut

\* The part of C36 that holds: the wait ends without an id either by the
\* timeout after 10 polls or by the unbound local name `time`.
WaitEndsByTimeoutOrUnboundTime ==
    WaitEndedWithoutId => (WaitTimedOut \/ au_cause = "UnboundLocalError")

(***************************************************************************)
(* Claims about the collaborators of BrowserManager.login, under           *)
(* SpecBrowserLogin.                                                       *)
(***************************************************************************)
LastEvent == IF log = <<>> THEN "none" ELSE log[Len(log)]

\* login ended with an error raised by the mailbox collaborator.
MailboxEndedLogin ==
    /\ bl_pc = "done"
    /\ bl_result # "ok"
    /\ LastEvent \in {"gmail:init", "gmail:list", "gmail:get"}

\* C37: when the site presents no one-time-code field, the outcome of
\* BrowserManager.login does not depend on the mailbox collaborator: no login
\* in which no code field was found ends with an error of the Gmail service.
C37_NoOtpFieldNoMailboxFailure == otp_input = "none" => ~MailboxEndedLogin

\* The part of C37 that holds: once the Gmail client exists and neither code
\* field is found, the mailbox is not queried and login ends as the page-source
\* write and the marker lookup decide.
CreatedClientIsUnusedWithoutField ==
    (NeitherOtpFieldFound /\ bl_pc = "done") =>
        /\ "gmail:list" \notin Events
        /\ LastEvent \in {"write:page_source", "find:accounts", "notfound:accounts"}


\* C38: BrowserManager.login returns normally whenever the credential forms,
\* the challenge step and the marker lookup succeed; a failure to write the
\* diagnostic page-source file never makes login fail: a login that reached
\* the write goes on to the marker lookup, and ends well when the marker is
\* found.
C38_PageSourceWriteNeverFailsLogin ==
    (bl_pc = "done" /\ "write:page_source" \in Events) =>
        /\ "find:accounts" \in Events
        /\ "notfound:accounts" \notin Events => bl_result = "ok"

\* The part of C38 that holds: a login whose marker lookup was made and found
\* the marker returns normally.
FoundMarkerReturnsNormally ==
    (bl_pc = "done" /\ LastEvent = "find:accounts") => bl_result = "ok"

(***************************************************************************)
(* Claims about the files of the two stages of scrape, under SpecScrape.   *)
(***************************************************************************)
\* _aggregate_csv_files of the history stage is about to collect *.csv.
HistoryAggregationStarts == sc_pc = "aggregate" /\ sc_phase = "assets"

\* C39: the assets output of the history stage contains only rows of files
\* downloaded in the history stage: every CSV written during the accounts
\* stage has been removed from the download directory before the history
\* aggregation collects *.csv from it, even when a deletion in
\* clean_download_dir fails.
C39_NoAccountsFileInHistoryAggregation ==
    HistoryAggregationStarts => RawFile("detail") \notin dir_files

\* The part of C39 that holds: when no deletion failed, the history
\* aggregation finds no file of the accounts stage.
CleanedDirectoryHoldsNoAccountsFile ==
    (HistoryAggregationStarts /\ ~clean_failed) => RawFile("detail") \notin dir_files

(***************************************************************************)
(* Claims about the legacy entry point, under SpecMain.                    *)
(***************************************************************************)
MainEnded == mn_pc = "done"

\* C40: main.scrape never lets an exception escape and always quits the
\* driver it created: every failure, the failure to create the download
\* directory or the driver included, is logged and the function returns
\* normally.
C40_LegacyScrapeNeverRaises ==
    MainEnded =>
        /\ mn_result = "returned"
        /\ mn_driver = "bound" => mn_quit_calls = 1

\* The part of C40 that holds: a driver that was created is quit exactly
\* once, every error of the try block is logged, and nothing but an error of
\* the finally clause escapes.
CreatedDriverIsQuitAndErrorsLogged ==
    MainEnded =>
        /\ mn_quit_calls = IF mn_driver = "bound" THEN 1 ELSE 0
        /\ mn_exc = "none"
        /\ mn_result \in {"returned", "UnboundLocalError", "WebDriverException"}
        /\ mn_result = "UnboundLocalError" <=> mn_driver = "unbound"
        /\ mn_driver = "unbound" => Len(mn_logged) = 1

(***************************************************************************)
(* Specifications: one per component, and their union.                     *)
(***************************************************************************)
InitDownload ==
    /\ StartDownload
    /\ IdleEnv
    /\ IdleLogin
    /\ IdleBrowserLogin
    /\ IdleAuthLogin
    /\ IdleRetry
    /\ IdleDriver
    /\ IdleWith
    /\ IdleScrape
    /\ IdleAggregate
    /\ IdleLinks
    /\ IdleMf
    /\ IdleHistory
    /\ IdleMain

SpecDownload == InitDownload /\ [][NextDownload]_vars

StartBrowserLogin ==
    /\ IdleDownload
    /\ InitEnv
    /\ IdleLogin
    /\ InitBrowserLogin
    /\ IdleAuthLogin
    /\ IdleRetry
    /\ IdleDriver
    /\ IdleWith
    /\ IdleScrape
    /\ IdleAggregate
    /\ IdleLinks
    /\ IdleMf
    /\ IdleHistory
    /\ IdleMain

SpecBrowserLogin == StartBrowserLogin /\ [][NextBrowserLogin]_vars

StartAuthLogin ==
    /\ IdleDownload
    /\ InitEnv
    /\ IdleLogin
    /\ IdleBrowserLogin
    /\ InitAuthLogin
    /\ IdleRetry
    /\ IdleDriver
    /\ IdleWith
    /\ IdleScrape
    /\ IdleAggregate
    /\ IdleLinks
    /\ IdleMf
    /\ IdleHistory
    /\ IdleMain

SpecAuthLogin == StartAuthLogin /\ [][NextAuthLogin]_vars

InitRetry ==
    /\ IdleDownload
    /\ IdleEnv
    /\ IdleLogin
    /\ IdleBrowserLogin
    /\ IdleAuthLogin
    /\ StartRetry
    /\ IdleDriver
    /\ IdleWith
    /\ IdleScrape
    /\ IdleAggregate
    /\ IdleLinks
    /\ IdleMf
    /\ IdleHistory
    /\ IdleMain

SpecRetry == InitRetry /\ [][NextRetry]_vars

InitWith ==
    /\ IdleDownload
    /\ IdleEnv
    /\ IdleLogin
    /\ IdleBrowserLogin
    /\ IdleAuthLogin
    /\ IdleRetry
    /\ IdleDriver
    /\ StartWith
    /\ IdleScrape
    /\ IdleAggregate
    /\ IdleLinks
    /\ IdleMf
    /\ IdleHistory
    /\ IdleMain

SpecWith == InitWith /\ [][NextWith]_vars

InitScrape ==
    /\ IdleDownload
    /\ IdleEnv
    /\ IdleLogin
    /\ IdleBrowserLogin
    /\ IdleAuthLogin
    /\ IdleRetry
    /\ IdleDriver
    /\ IdleWith
    /\ StartScrape
    /\ IdleAggregate
    /\ IdleLinks
    /\ IdleMf
    /\ IdleHistory
    /\ IdleMain

SpecScrape == InitScrape /\ [][NextScrape]_vars

InitAggregate ==
    /\ IdleDownload
    /\ IdleEnv
    /\ IdleLogin
    /\ IdleBrowserLogin
    /\ IdleAuthLogin
    /\ IdleRetry
    /\ IdleDriver
    /\ IdleWith
    /\ IdleScrape
    /\ StartAggregate
    /\ IdleLinks
    /\ IdleMf
    /\ IdleHistory
    /\ IdleMain

SpecAggregate == InitAggregate /\ [][NextAggregate]_vars

InitLinks ==
    /\ IdleDownload
    /\ IdleEnv
    /\ IdleLogin
    /\ IdleBrowserLogin
    /\ IdleAuthLogin
    /\ IdleRetry
    /\ driver \in {"none", "held"}
    /\ acquired = (driver = "held")
    /\ quit_calls = 0
    /\ IdleWith
    /\ IdleScrape
    /\ IdleAggregate
    /\ StartLinks
    /\ IdleMf
    /\ IdleHistory
    /\ IdleMain

SpecLinks == InitLinks /\ [][NextLinks]_vars

InitMf ==
    /\ IdleDownload
    /\ IdleEnv
    /\ IdleLogin
    /\ IdleBrowserLogin
    /\ IdleAuthLogin
    /\ IdleRetry
    /\ IdleDriver
    /\ IdleWith
    /\ IdleScrape
    /\ IdleAggregate
    /\ IdleLinks
    /\ StartMf
    /\ IdleHistory
    /\ IdleMain

SpecMf == InitMf /\ [][NextMf]_vars

InitHistory ==
    /\ IdleDownload
    /\ IdleEnv
    /\ IdleLogin
    /\ IdleBrowserLogin
    /\ IdleAuthLogin
    /\ IdleRetry
    /\ IdleDriver
    /\ IdleWith
    /\ IdleScrape
    /\ IdleAggregate
    /\ IdleLinks
    /\ IdleMf
    /\ StartHistory
    /\ IdleMain

SpecHistory == InitHistory /\ [][NextHistory]_vars

InitMain ==
    /\ IdleDownload
    /\ IdleEnv
    /\ IdleLogin
    /\ IdleBrowserLogin
    /\ IdleAuthLogin
    /\ IdleRetry
    /\ IdleDriver
    /\ IdleWith
    /\ IdleScrape
    /\ IdleAggregate
    /\ IdleLinks
    /\ IdleMf
    /\ IdleHistory
    /\ StartMain

SpecMain == InitMain /\ [][NextMain]_vars

\* Every use of the manager as a context manager: alone and inside scrape.
InitLifecycle == InitWith \/ InitScrape
NextLifecycle == NextWith \/ NextScrape
SpecLifecycle == InitLifecycle /\ [][NextLifecycle]_vars

Init == InitDownload \/ StartBrowserLogin \/ StartAuthLogin \/ InitRetry \/ InitWith
           \/ InitScrape \/ InitAggregate \/ InitLinks \/ InitMf \/ InitHistory \/ InitMain
Next == NextDownload \/ NextBrowserLogin \/ NextAuthLogin \/ NextRetry \/ NextWith
           \/ NextScrape \/ NextAggregate \/ NextLinks \/ NextMf \/ NextHistory \/ NextMain
Spec == Init /\ [][Next]_vars
====
